---- MODULE Spec2Model ----
(***************************************************************************)
(* Parallax engine (SimpleParallax), its effect host (EffectManager) and   *)
(* the input-fusion state machine of the portfolio website.                *)
(*                                                                         *)
(* Numbers.  The program computes in IEEE doubles; the model computes in   *)
(* fixed point.  Normalised motion (mouseX, targetX, orientationX, the     *)
(* mouseDelta uniform) is an integer count of 1/Scale, factors that the    *)
(* configuration gives as fractions (easing, focus, sensitivities) are     *)
(* integer percentages, times are milliseconds, angles are degrees.        *)
(* Products are rounded toward zero.                                       *)
(*                                                                         *)
(* Atomicity.  The program is single threaded: every event handler, timer  *)
(* callback, frame callback and promise continuation runs to completion,   *)
(* so each is one action.                                                  *)
(***************************************************************************)
EXTENDS Integers, Sequences, FiniteSets, TLC

\* ---------------------------------------------------------------- bounds
\* Fixed-point resolution of normalised motion values.
Scale == 1000
\* Wall clock (Date.now / performance.now) stops advancing here.
MaxTime == 3001
\* Number of frame callbacks that are followed.
MaxFrames == 2
\* Number of createMesh() calls that are followed (the first background
\* and the backgrounds changed to).
MaxMeshes == 2
\* Largest radius (number of dilation passes) of expandDepthMap() that is
\* followed.
MaxRadius == 2
\* the lantern effect is followed until its clock reaches this time (ms)
MaxLanternTime == 200
\* the water effect is followed until its clock reaches this time (s)
MaxRippleTime == 10
\* WaterParticleEmitter.maxParticles, scaled down from 200
maxParticles == 3
\* the particle emitter is followed until its clock reaches this time
MaxEmitterTime == 2
\* Significant bits of the floating-point sums of the calibration (an IEEE
\* double has 53; sample values are whole degrees).
MantissaBits == 6

\* ------------------------------------------------- program constants
\* settings.focus 0.25, settings.baseMouseSensitivity 0.5 (percent)
Focus == 25
BaseMouseSensitivity == 50
\* settings.mouseSensitivityFocusFactor {min: 0.3, max: 0.7} (percent)
SensitivityMin == 30
SensitivityMax == 70
\* settings.idleTimeout (ms), autoMovementSpeed 0.3, autoMovementRange 0.5,
\* returnToCenterEasing 0.08 (percent)
IdleTimeout == 3000
AutoMovementSpeed == 30
AutoMovementRange == 50
ReturnToCenterEasing == 8
\* settings.orientationSensitivity 1.0 (percent), threshold and max angle (deg)
OrientationSensitivity == 100
OrientationThreshold == 5
OrientationMaxAngle == 30
\* settings.easing 0.05 (percent), extraScale 1.2 (percent), focalPoint
\* {x: 0.5, y: 0.5} (percent), expandDepthmapRadius, depthmapSize (pixels)
Easing == 5
ExtraScale == 120
FocalPoint == 50
ExpandDepthmapRadius == 7
DepthmapSize == 1024
\* detectMobileDevice: window.innerWidth < 768
MobileBreakpoint == 768
\* setupOrientationListeners: setTimeout(..., 2000)
ProbeDelay == 2000
\* handleDeviceOrientation: orientationBaselineSamples.length < 8
BaselineSampleCount == 8
\* animate: deltaTime is capped at 0.1 s
MaxDeltaTime == 100
\* expandDepthMap: a pixel spreads its depth only if (currentDepth < 10) fails
MinSpreadDepth == 10
\* frameDelta of LanternEffect.update() when deltaTime is not positive (ms)
DefaultFrameDelta == 16
\* WaterRippleEffect.maxInstances
maxInstances == 8
\* alpha is counted in units of 1/AlphaScale
AlphaScale == 10000
\* alpha of a breadcrumb when it is dropped: 0.8
CrumbAlpha == 8000
\* createRippleInstance() drops the instances whose alpha is not above 0.001
DeadAlpha == 10
\* 1 / fadeOutSpeed for the default fadeOutSpeed of 0.002 (s)
FadeOutDuration == 500
\* Math.pow(0.5, deltaTime / fadeTime) for deltaTime = 1 s and the default
\* fadeInSpeed of 0.002, in units of 1/AlphaScale
FadeFactor == 9986
\* mouseInteraction.maxLifetime of the configuration that is followed (s)
maxLifetime == 9
\* createMesh: 2 * tan(45 deg / 2) * camera.position.z with the camera at
\* z = 4, in thousandths
VisibleHeightMilli == 3314

\* ------------------------------------------------------ input domains
\* expectedEffects of bg2 (two modules) and of a background without effects
Effects == {"lanterns", "water-ripple"}
EffectFileLists == {<<>>, <<"lanterns", "water-ripple">>}
\* this.config.settings of the constructor (the keys the model follows)
DefaultSettings ==
    [focus |-> Focus,
     baseMouseSensitivity |-> BaseMouseSensitivity,
     expandDepthmapRadius |-> ExpandDepthmapRadius,
     depthmapSize |-> DepthmapSize,
     easing |-> Easing,
     extraScale |-> ExtraScale,
     focalPoint |-> <<FocalPoint, FocalPoint>>,
     mouseSensitivityFocusFactor |-> <<SensitivityMin, SensitivityMax>>,
     autoMovementEnabled |-> TRUE,
     orientationSensitivity |-> OrientationSensitivity,
     orientationThreshold |-> OrientationThreshold,
     orientationMaxAngle |-> OrientationMaxAngle,
     orientationEnabled |-> TRUE,
     orientationFallbackToTouch |-> TRUE]
\* "settings" objects of config.json that carry every key: the defaults of
\* the constructor, and two variations of easing (percent) and of the
\* feature switches
ConfigProfiles ==
    { DefaultSettings,
      [DefaultSettings EXCEPT !.easing = 100, !.autoMovementEnabled = FALSE,
                              !.orientationFallbackToTouch = FALSE],
      [DefaultSettings EXCEPT !.easing = 0, !.orientationEnabled = FALSE] }
\* What fetch('config.json') and response.json() give: a file with a
\* "settings" object, a file without one, no file (response.ok false), or a
\* failed fetch / parse
ConfigFile(settingsObject) ==
    [status |-> "ok", hasSettings |-> TRUE, settings |-> settingsObject]
ConfigWithoutSettings ==
    [status |-> "ok", hasSettings |-> FALSE, settings |-> <<>>]
ConfigMissing ==
    [status |-> "missing", hasSettings |-> FALSE, settings |-> <<>>]
ConfigError ==
    [status |-> "error", hasSettings |-> FALSE, settings |-> <<>>]
\* window.innerWidth values on both sides of the mobile breakpoint
Widths == {500, 1024}
\* DeviceOrientationEvent: undefined / defined / defined with requestPermission
OrientationApis == {"none", "plain", "permission"}
\* pointer and touch positions after normalisation to [-1, 1] (before the
\* sign flip of mouseX), in units of 1/Scale
PointerPositions == {<<0 - Scale, Scale>>, <<Scale, 0>>}
\* amounts by which the wall clock advances between two callbacks
TickSteps == {2000, 3001}
\* deviceorientation samples {beta, gamma}; NoData has beta = gamma = null
OrientationSamples == {[data |-> TRUE, beta |-> 40, gamma |-> 0 - 20]}
NoData == [data |-> FALSE, beta |-> 0, gamma |-> 0]

\* orientation samples of two different device poses
TiltSamples == {[data |-> TRUE, beta |-> 40, gamma |-> 0 - 20],
                [data |-> TRUE, beta |-> 15, gamma |-> 30]}
\* "settings" objects that vary the orientation parameters: the dead zone
\* (degrees), the angle of full deflection (degrees) and the sensitivity
TiltProfiles ==
    { [DefaultSettings EXCEPT !.autoMovementEnabled = FALSE],
      [DefaultSettings EXCEPT !.autoMovementEnabled = FALSE,
                              !.orientationThreshold = 0,
                              !.orientationMaxAngle = 45,
                              !.orientationSensitivity = 50] }
\* "settings" objects of the configuration guide that carry some keys only:
\* its "Configuration File Structure" (which names the depth-map size
\* meshResolution, a key the engine does not read) and its "Subtle
\* Parallax" example
ReadmeStructure ==
    [focus |-> 25, baseMouseSensitivity |-> 50, expandDepthmapRadius |-> 7,
     meshResolution |-> 1024, easing |-> 5,
     mouseSensitivityFocusFactor |-> <<30, 70>>]
SubtleParallax ==
    [focus |-> 10, baseMouseSensitivity |-> 30, expandDepthmapRadius |-> 10]
\* the outcomes of loading config.json that init() is followed through
LoadOutcomes ==
    {ConfigMissing, ConfigError, ConfigWithoutSettings, ConfigFile(DefaultSettings),
     ConfigFile(ReadmeStructure), ConfigFile(SubtleParallax)}
\* settings objects at the two ends of the easing range of the claims about
\* the integrator, with the auto-circle on and off and focus over [0, 1]
MotionProfiles ==
    {[DefaultSettings EXCEPT !.easing = 100],
     [DefaultSettings EXCEPT !.easing = 100, !.autoMovementEnabled = FALSE, !.focus = 100],
     [DefaultSettings EXCEPT !.easing = 0, !.focus = 50],
     [DefaultSettings EXCEPT !.easing = 0, !.autoMovementEnabled = FALSE, !.focus = 0]}
\* the default settings with a focal point (percent), an extraScale
\* (percent) and a reference viewport (pixels)
SceneSettings(focalPoint, extraScale, referenceViewport) ==
    [key \in DOMAIN DefaultSettings \cup {"referenceViewport"} |->
        CASE key = "referenceViewport" -> referenceViewport
          [] key = "focalPoint" -> focalPoint
          [] key = "extraScale" -> extraScale
          [] OTHER -> DefaultSettings[key]]
\* settings objects over the focal points (centre, corners, off-centre)
\* and over extraScale from 1 upwards
SceneProfiles ==
    {SceneSettings(<<50, 50>>, 120, <<1024, 768>>),
     SceneSettings(<<50, 50>>, 100, <<500, 400>>),
     SceneSettings(<<0, 100>>, 100, <<1024, 768>>),
     SceneSettings(<<100, 0>>, 120, <<1024, 400>>),
     SceneSettings(<<30, 80>>, 150, <<500, 400>>)}
\* what the fetch of the config.json of a background changed to gives
BackgroundFiles ==
    {ConfigMissing, ConfigFile(SceneSettings(<<30, 80>>, 150, <<500, 400>>))}
\* settings objects over expandDepthmapRadius
DepthProfiles ==
    {[DefaultSettings EXCEPT !.expandDepthmapRadius = radius] : radius \in 0..MaxRadius}
\* every config.json that is exercised
ConfigFiles ==
    {ConfigFile(p) : p \in ConfigProfiles \cup TiltProfiles \cup MotionProfiles
                           \cup SceneProfiles \cup DepthProfiles}
        \cup LoadOutcomes

\* null of orientationBaseline, of cachedCanonicalTransform and of the
\* objects that do not exist yet
NULL == <<>>

\* window.innerHeight
Heights == {400, 768}
\* width and height in pixels of the depth map of a background: a landscape
\* and a portrait image
ImageSizes == {<<1920, 1080>>, <<1000, 1500>>}
\* image UV position of a lantern of the lantern configuration
LanternUV == << <<1, 4>>, <<3, 4>> >>

VARIABLES
    \* environment and configuration (fixed after construction)
    touchCapable,        \* 'ontouchstart' in window || maxTouchPoints > 0
    orientationApi,      \* which DeviceOrientationEvent the browser offers
    effectFiles,         \* discoverEffectFiles() of the background
    configFile,          \* what the fetch of config.json gives
    imageSize,           \* pixel size of the depth map of the first background
    \* browser
    now,                 \* wall clock, ms
    innerWidth,          \* window.innerWidth
    innerHeight,         \* window.innerHeight
    \* SimpleParallax
    settings,            \* the instance fields that applyConfig() assigns
    initPc,              \* position of async init()
    rasters,             \* the image and depth-map promises of loadImageAndDepthMap()
    mesh,                \* this.mesh / this.uniforms exist
    mouseDelta,          \* uniforms.mouseDelta.value
    listenersInstalled,  \* setupEventListeners() has run
    rafScheduled,        \* a requestAnimationFrame callback is pending
    effectManager,       \* this.effectManager !== null
    mouseX, mouseY, targetX, targetY,
    mouseOnScreen, lastMouseMoveTime, lastFrameTime, isLocked,
    isTouchDevice, isMobile, useOrientation,
    orientationSupported, orientationPermissionGranted,
    orientationPermissionRequested, orientationDataReceived,
    orientationBaseline, orientationBaselineSamples,
    orientationX, orientationY,
    orientationListeners, \* number of registered deviceorientation listeners
    probeTimers,          \* due times of the pending 2-second probes
    permissionRequests,   \* pending DeviceOrientationEvent.requestPermission()
    tiltEvents,           \* (observation) events with data that were handled
                          \* since the calibration last started, up to 8
    \* scene
    cameraAspect,        \* camera.aspect (NULL before the camera exists)
    depthData,           \* pixel size of this.depthData (NULL before it exists)
    uniforms,            \* which this.uniforms objects exist: 0 for none, k for
                         \* the objects that the k-th createMesh() made
    sceneMeshes,         \* the displacement meshes in the scene, each named by
                         \* the createMesh() call that made it
    meshTransform,       \* this.meshTransform
    cachedCanonicalTransform,
    backgroundPc,        \* position of ParallaxBackground.changeBackground()
    pendingImage,        \* pixel size of the depth map of the requested background
    \* effect instances
    lanternOrigin,       \* originPosition of a lantern system (NULL before init)
    overlayUniforms,     \* the uniform objects the water overlay holds (as uniforms)
    overlayMouseDelta,   \* mouseDelta.value of the objects the overlay holds
    \* EffectManager
    effects,             \* keys of the Map this.effects
    effectInstances,     \* this.effectInstances
    isInitialized,
    loadPc,              \* position of async loadEffects()
    loadOne,             \* per module: position / outcome of loadOne(file)
    \* observations (history, written but never read by the program)
    frame,               \* what the latest frame callback did
    frameCount,
    updatedEver,         \* modules whose update() has been called
    cleanupCalls,        \* per module: number of cleanup() calls
    destroyed,           \* destroy() has returned
    resolvedAtDestroy,   \* modules whose init() had resolved when destroy() ran
    lastAcceptedInput,   \* time of the latest accepted input event
    inputSinceFrame,     \* an input event was accepted after the latest frame
    probeValidated,      \* a probe fired and found orientation data
    samplesSeen,         \* the distinct orientation samples that were handled
    notified,            \* per module: the transform its latest
                         \* updatePositionsForMeshTransform() call was given
    apiResults,          \* what the latest query of the effect-facing getters gave
    \* depth raster
    depthImage,          \* red channel of the depth map as decoded (NULL before)
    depthRaster,         \* red channel of this.depthData.data (NULL before)
    expansion,           \* (observation) the latest direct expandDepthMap() call
    \* LanternEffect
    lanternSystems,      \* this.lanternSystems: per system its count, its live
                         \* particles and its nextParticleTime (NULL before init())
    lanternTime,         \* this.time in ms
    lanternInitialized,  \* this.isInitialized of the lantern effect
    meshes,              \* BaseEffect.meshes: the meshes tracked for cleanup
    materials,           \* BaseEffect.materials: each named by its mesh
    textures,            \* BaseEffect.textures: one entry per plane mesh
    \* WaterRippleEffect
    rippleInstances,     \* this.rippleInstances
    currentInstanceIndex, \* index into rippleInstances counted from 0, or -1
    wakeActive,
    rippleTime,          \* this.time in s
    activeWake,          \* (observation) createdAt of the instance made by the
                         \* latest createRippleInstance() call
    \* WaterParticleEmitter
    particles,           \* this.particles: the live particles, each with its
                         \* mesh, age and lifetime
    pool,                \* this.pool: the released particles
    emitterTime,         \* this.time in units of the spray interval
    lastSprayTime,
    meshesCreated,       \* (observation) number of meshes made by _acquireParticle()
    createdAtCapacity    \* (observation) a mesh was made while particles and
                         \* pool together held maxParticles or more

envVars == <<touchCapable, orientationApi, effectFiles, configFile, imageSize>>
browserVars == <<now, innerWidth, innerHeight>>
engineVars == <<settings, initPc, rasters, mesh, mouseDelta, listenersInstalled,
               rafScheduled, effectManager>>
motionVars == <<mouseX, mouseY, targetX, targetY, mouseOnScreen, lastMouseMoveTime,
                lastFrameTime, isLocked>>
deviceVars == <<isTouchDevice, isMobile, useOrientation>>
orientationVars == <<orientationSupported, orientationPermissionGranted,
                     orientationPermissionRequested, orientationDataReceived,
                     orientationBaseline, orientationBaselineSamples,
                     orientationX, orientationY, orientationListeners,
                     probeTimers, permissionRequests, tiltEvents>>
sceneVars == <<cameraAspect, depthData, uniforms, sceneMeshes, meshTransform,
               cachedCanonicalTransform, backgroundPc, pendingImage, lanternOrigin,
               overlayUniforms, overlayMouseDelta, notified, apiResults>>
depthVars == <<depthImage, depthRaster, expansion>>
lanternVars == <<lanternSystems, lanternTime, lanternInitialized, meshes, materials,
                 textures>>
waterVars == <<rippleInstances, currentInstanceIndex, wakeActive, rippleTime,
               activeWake>>
emitterVars == <<particles, pool, emitterTime, lastSprayTime, meshesCreated,
                 createdAtCapacity>>
assetVars == <<depthVars, lanternVars, waterVars, emitterVars>>
hostVars == <<effects, effectInstances, isInitialized, loadPc, loadOne>>
historyVars == <<frame, frameCount, updatedEver, cleanupCalls, destroyed,
                 resolvedAtDestroy, lastAcceptedInput, inputSinceFrame, probeValidated,
                 samplesSeen>>
vars == <<envVars, assetVars, browserVars, engineVars, motionVars, deviceVars, orientationVars,
          sceneVars, hostVars, historyVars>>

\* ------------------------------------------------------------ helpers
Range(s) == {s[i] : i \in 1..Len(s)}

Abs(x) == IF x < 0 THEN 0 - x ELSE x

\* a * b / c on doubles, rounded toward zero
MulDiv(a, b, c) ==
    LET p == a * b
    IN  IF p >= 0 THEN p \div c ELSE 0 - ((0 - p) \div c)

Clamp(lo, x, hi) == IF x < lo THEN lo ELSE IF x > hi THEN hi ELSE x

\* ------------------------------------------------- exact arithmetic
\* Lengths, scales and offsets of the mesh are exact fractions <<n, d>> in
\* lowest terms with d > 0: the cover fit divides by the aspect ratios of
\* image and viewport, and its claims are equalities and sign conditions.
RECURSIVE GCD(_, _)
GCD(a, b) == IF b = 0 THEN a ELSE GCD(b, a % b)

Rat(n, d) ==
    LET g == GCD(Abs(n), Abs(d))
        sign == IF d < 0 THEN 0 - 1 ELSE 1
    IN  <<sign * (n \div g), sign * (d \div g)>>

\* (denominators and cross factors are cancelled before multiplying, so
\* that the intermediate products stay small)
RatAdd(a, b) ==
    LET g == GCD(a[2], b[2])
    IN  Rat(a[1] * (b[2] \div g) + b[1] * (a[2] \div g), (a[2] \div g) * b[2])
RatSub(a, b) == RatAdd(a, <<0 - b[1], b[2]>>)
RatMul(a, b) ==
    LET g1 == GCD(Abs(a[1]), b[2])
        g2 == GCD(Abs(b[1]), a[2])
    IN  Rat((a[1] \div g1) * (b[1] \div g2), (a[2] \div g2) * (b[2] \div g1))
RatDiv(a, b) == RatMul(a, Rat(b[2], b[1]))
RatLess(a, b) ==
    LET g == GCD(a[2], b[2])
    IN  a[1] * (b[2] \div g) < b[1] * (a[2] \div g)
RatLeq(a, b) == ~RatLess(b, a)
RatAbs(a) == <<Abs(a[1]), a[2]>>
\* the value of an expression that is evaluated once
Only(S) == CHOOSE x \in S : TRUE
Zero == <<0, 1>>
Half == <<1, 2>>
\* a setting given in percent
Percent(p) == Rat(p, 100)

\* detectTouchDevice / detectMobileDevice
detectTouchDevice == touchCapable
detectMobileDevice(touch, width) == touch /\ width < MobileBreakpoint

\* typeof DeviceOrientationEvent.requestPermission === 'function'
needsPermission == orientationApi = "permission"

\* ------------------------------------------------------- configuration
\* The instance fields are kept in one record.  A field that is `undefined`
\* has its name in the set `undefined` (its slot then holds 0, or FALSE for
\* a flag, which is how `undefined` behaves in a condition).  The record
\* also carries config.settings.referenceViewport, which the engine reads
\* from the merged configuration (<<width, height>>, NULL when absent).
Has(s, key) == key \in DOMAIN s

\* The fields when the constructor returns: only easing and the
\* auto-movement fields have been assigned.
ConstructorFields ==
    [focus |-> 0,
     baseMouseSensitivity |-> 0,
     expandDepthmapRadius |-> 0,
     depthmapSize |-> 0,
     easing |-> Easing,
     extraScale |-> 0,
     focalPoint |-> <<0, 0>>,
     mouseSensitivityFocusFactor |-> <<0, 0>>,
     autoMovementEnabled |-> TRUE,
     orientationSensitivity |-> 0,
     orientationThreshold |-> 0,
     orientationMaxAngle |-> 0,
     orientationEnabled |-> FALSE,
     orientationFallbackToTouch |-> FALSE,
     depthMapPath |-> FALSE,
     referenceViewport |-> NULL,
     undefined |-> {"focus", "baseMouseSensitivity", "expandDepthmapRadius",
                    "depthmapSize", "extraScale", "focalPoint",
                    "mouseSensitivityFocusFactor", "orientationSensitivity",
                    "orientationThreshold", "orientationMaxAngle",
                    "orientationEnabled", "orientationFallbackToTouch",
                    "depthMapPath"}]

\* this.config = { ...this.config, ...configData }: a shallow merge, the
\* "settings" object of the file replaces the default one as a whole.
MergedSettings(file) == IF file.hasSettings THEN file.settings ELSE DefaultSettings

\* applyConfig() on config.settings = s
applyConfig(s) ==
    [focus |-> IF Has(s, "focus") THEN s.focus ELSE 0,
     baseMouseSensitivity |->
        IF Has(s, "baseMouseSensitivity") THEN s.baseMouseSensitivity ELSE 0,
     expandDepthmapRadius |->
        IF Has(s, "expandDepthmapRadius") THEN s.expandDepthmapRadius ELSE 0,
     depthmapSize |-> IF Has(s, "depthmapSize") THEN s.depthmapSize ELSE 0,
     easing |-> IF Has(s, "easing") THEN s.easing ELSE 0,
     extraScale |->
        IF Has(s, "extraScale") /\ s.extraScale # 0 THEN s.extraScale ELSE ExtraScale,
     focalPoint |->
        IF Has(s, "focalPoint") THEN s.focalPoint ELSE <<FocalPoint, FocalPoint>>,
     mouseSensitivityFocusFactor |->
        IF Has(s, "mouseSensitivityFocusFactor")
        THEN s.mouseSensitivityFocusFactor ELSE <<0, 0>>,
     autoMovementEnabled |-> ~Has(s, "autoMovementEnabled") \/ s.autoMovementEnabled,
     orientationSensitivity |->
        IF Has(s, "orientationSensitivity")
        THEN s.orientationSensitivity ELSE OrientationSensitivity,
     orientationThreshold |->
        IF Has(s, "orientationThreshold")
        THEN s.orientationThreshold ELSE OrientationThreshold,
     orientationMaxAngle |->
        IF Has(s, "orientationMaxAngle")
        THEN s.orientationMaxAngle ELSE OrientationMaxAngle,
     orientationEnabled |-> ~Has(s, "orientationEnabled") \/ s.orientationEnabled,
     orientationFallbackToTouch |->
        ~Has(s, "orientationFallbackToTouch") \/ s.orientationFallbackToTouch,
     depthMapPath |-> TRUE,
     referenceViewport |->
        IF Has(s, "referenceViewport") THEN s.referenceViewport ELSE NULL,
     undefined |-> {key \in {"focus", "baseMouseSensitivity", "expandDepthmapRadius",
                             "depthmapSize", "easing", "mouseSensitivityFocusFactor"} :
                       ~Has(s, key)}]

\* loadConfig(): applyConfig() runs only for a response that is ok and
\* parses; otherwise the fields stay as the constructor left them.
loadConfig(file, fields) ==
    IF file.status = "ok" THEN applyConfig(MergedSettings(file)) ELSE fields

\* ---------------------------------------------------- mesh transform
\* visibleHeight of the camera at the mesh plane
visibleHeight == Rat(VisibleHeightMilli, 1000)

\* geometry.parameters of createGeometry(): PlaneGeometry(imageAspect, 1, ..)
GeometrySize(depth) == <<Rat(depth[1], depth[2]), <<1, 1>>>>

\* the initial this.meshTransform of the constructor (position z is 0
\* throughout and is left out)
InitialMeshTransform ==
    [scale |-> <<1, 1>>, position |-> <<Zero, Zero>>,
     baseGeometrySize |-> << <<1, 1>>, <<1, 1>> >>]

\* Cover fit: scale by width when the viewport is wider than the image,
\* by height otherwise.
baseScale(containerAspect, imageAspect, visibleWidth, geometry) ==
    IF RatLess(imageAspect, containerAspect)
    THEN RatDiv(visibleWidth, geometry[1])
    ELSE RatDiv(visibleHeight, geometry[2])

\* overflowX, overflowY of positionMeshByFocalPoint()
Overflow(finalScale, visibleWidth, geometry) ==
    <<RatSub(RatMul(geometry[1], finalScale), visibleWidth),
      RatSub(RatMul(geometry[2], finalScale), visibleHeight)>>

\* positionMeshByFocalPoint() that centres the mesh whatever the focal point.
positionMeshByFocalPoint_Centred(finalScale, visibleWidth, geometry, focalPoint) ==
    <<Zero, Zero>>

\* positionMeshByFocalPoint() that measures the offset from the focal point
\* 0 instead of the centre.
positionMeshByFocalPoint_FromEdge(finalScale, visibleWidth, geometry, focalPoint) ==
    LET overflow == Overflow(finalScale, visibleWidth, geometry)
    IN  <<RatMul(RatSub(Zero, Percent(focalPoint[1])), overflow[1]),
          RatMul(RatSub(Zero, Percent(focalPoint[2])), overflow[2])>>

\* positionMeshByFocalPoint(): mesh.position.x, mesh.position.y
positionMeshByFocalPoint(finalScale, visibleWidth, geometry, focalPoint) ==
    Only({<<RatMul(RatSub(Half, Percent(focalPoint[1])), overflow[1]),
            RatMul(RatSub(Half, Percent(focalPoint[2])), overflow[2])>> :
          overflow \in {Overflow(finalScale, visibleWidth, geometry)}})

\* updateMeshTransform(): the tracked copy of scale, position and base size
updateMeshTransform(scale, position, geometry) ==
    [scale |-> scale, position |-> position, baseGeometrySize |-> geometry]

\* The scaling and positioning of createMesh() and of the resize handler:
\* containerAspect from the window, visibleWidth from camera.aspect.
ScaleAndPositionMesh(viewport, aspect, depth, geometry, fields) ==
    Only({Only({updateMeshTransform(
                    finalScale,
                    positionMeshByFocalPoint(finalScale, visibleWidth, geometry,
                                             fields.focalPoint),
                    geometry) :
                finalScale \in
                    {RatMul(baseScale(Rat(viewport[1], viewport[2]),
                                      Rat(depth[1], depth[2]), visibleWidth, geometry),
                            Percent(fields.extraScale))}}) :
          visibleWidth \in {RatMul(visibleHeight, aspect)}})

\* cacheCanonicalTransform() that leaves the focal offset out.
cacheCanonicalTransform_Centred(cached, depth, geometry, fields) ==
    IF fields.referenceViewport = NULL
    THEN cached
    ELSE [ScaleAndPositionMesh(
              fields.referenceViewport,
              Rat(fields.referenceViewport[1], fields.referenceViewport[2]),
              depth, geometry, fields) EXCEPT !.position = <<Zero, Zero>>]

\* cacheCanonicalTransform() that fits to the window as the handler found it
\* instead of the reference viewport.
cacheCanonicalTransform_FromWindow(cached, depth, geometry, fields) ==
    IF fields.referenceViewport = NULL
    THEN cached
    ELSE ScaleAndPositionMesh(<<innerWidth, innerHeight>>,
                              Rat(innerWidth, innerHeight), depth, geometry, fields)

\* cacheCanonicalTransform(): nothing without a reference viewport, else
\* the cover fit and focal offset at the reference viewport
cacheCanonicalTransform(cached, depth, geometry, fields) ==
    IF fields.referenceViewport = NULL
    THEN cached
    ELSE Only({Only({Only({
             [scale |-> finalScale,
              position |->
                 <<RatMul(RatSub(Half, Percent(fields.focalPoint[1])), overflow[1]),
                   RatMul(RatSub(Half, Percent(fields.focalPoint[2])), overflow[2])>>,
              baseGeometrySize |-> geometry] :
             \* overflowX, overflowY
             overflow \in
                 {<<RatSub(RatMul(geometry[1], finalScale),
                           RatMul(visibleHeight, containerAspect)),
                    RatSub(RatMul(geometry[2], finalScale), visibleHeight)>>}}) :
             \* baseScale * this.extraScale
             finalScale \in
                 {RatMul(IF RatLess(Rat(depth[1], depth[2]), containerAspect)
                         THEN RatDiv(RatMul(visibleHeight, containerAspect), geometry[1])
                         ELSE RatDiv(visibleHeight, geometry[2]),
                         Percent(fields.extraScale))}}) :
             \* REFERENCE_WIDTH / REFERENCE_HEIGHT
             containerAspect \in
                 {Rat(fields.referenceViewport[1], fields.referenceViewport[2])}})

\* The resize handler runs its fit on every event.  Its results are kept in
\* two tables, computed once with the operators above over the inputs that
\* are exercised: window sizes, camera aspects, depth maps, geometries and
\* the extraScale, focalPoint and referenceViewport of every config.json.
FitFields(fields) ==
    [extraScale |-> fields.extraScale, focalPoint |-> fields.focalPoint,
     referenceViewport |-> fields.referenceViewport]
FitSettings ==
    {FitFields(loadConfig(file, ConstructorFields)) : file \in ConfigFiles}
Geometries == {GeometrySize(depth) : depth \in ImageSizes}
CoverFit ==
    [i \in (Widths \X Heights) \X ImageSizes \X Geometries \X FitSettings |->
        ScaleAndPositionMesh(i[1], Rat(i[1][1], i[1][2]), i[2], i[3], i[4])] @@ <<>>
CanonicalFit ==
    [i \in ImageSizes \X Geometries \X FitSettings |->
        cacheCanonicalTransform(NULL, i[1], i[2], i[3])] @@ <<>>

\* LanternEffect: world position of the lantern at LanternUV for a transform,
\* (uv - 0.5) * (baseGeometrySize * scale) + position
LanternPosition(transform) ==
    <<RatAdd(RatMul(RatSub(LanternUV[1], Half),
                    RatMul(transform.baseGeometrySize[1], transform.scale)),
             transform.position[1]),
      RatAdd(RatMul(RatSub(LanternUV[2], Half),
                    RatMul(transform.baseGeometrySize[2], transform.scale)),
             transform.position[2])>>

\* ---------------------------------------------------- expandDepthMap
\* The dilation is followed on the red channel (the channel it compares) of
\* a raster of RasterShape = <<width, height>> pixels, kept row after row
\* as imageData.data is: pixel (x, y) is entry y * width + x + 1.
RasterShape == <<4, 3>>
PixelIndex(x, y) == y * RasterShape[1] + x + 1
\* the pixels that hold a depth in the exercised rasters: the middle row and
\* the two pixels above the interior; the others are 0
VaryingPixels ==
    {PixelIndex(x, 1) : x \in 0..(RasterShape[1] - 1)}
        \cup {PixelIndex(x, 0) : x \in 1..(RasterShape[1] - 2)}
\* depths below the spreading threshold, and two depths above it
DepthValues == {5, 100, 200}
Rasters ==
    {[p \in 1..(RasterShape[1] * RasterShape[2]) |->
         IF p \in VaryingPixels THEN image[p] ELSE 0] :
        image \in [VaryingPixels -> DepthValues]}

\* The visits of one pass in the order of the four nested loops: y, x over
\* the interior, then dy, dx over -1..1; each as <<idx, nIdx>>.
Visits ==
    LET columns == RasterShape[1] - 2
        rows == RasterShape[2] - 2
    IN  [k \in 1..(rows * columns * 9) |->
            LET pixel == (k - 1) \div 9
                offset == (k - 1) % 9
                x == 1 + (pixel % columns)
                y == 1 + (pixel \div columns)
                dx == (offset % 3) - 1
                dy == (offset \div 3) - 1
            IN  <<PixelIndex(x, y), PixelIndex(x + dx, y + dy)>>] @@ <<>>

\* A loop body that lowers the neighbour to the visiting depth when the
\* neighbour is deeper.
Visit_Erodes(src, dst, visit) ==
    IF src[visit[1]] < MinSpreadDepth
    THEN dst
    ELSE IF src[visit[2]] > src[visit[1]]
         THEN [dst EXCEPT ![visit[2]] = src[visit[1]]]
         ELSE dst

\* The body of the innermost loop: reads src, writes dst
Visit(src, dst, visit) ==
    IF src[visit[1]] < MinSpreadDepth
    THEN dst
    ELSE IF src[visit[2]] < src[visit[1]]
         THEN [dst EXCEPT ![visit[2]] = src[visit[1]]]
         ELSE dst

\* one pass from the k-th visit on
RECURSIVE Pass(_, _, _)
Pass(src, dst, k) ==
    IF k > Len(Visits) THEN dst ELSE Pass(src, Visit(src, dst, Visits[k]), k + 1)

\* expandDepthMap(imageData, radius): dst starts as a copy of src, and
\* src.set(dst) ends every pass
RECURSIVE expandDepthMap(_, _)
expandDepthMap(data, radius) ==
    IF radius <= 0 THEN data ELSE expandDepthMap(Pass(data, data, 1), radius - 1)

\* the raster with every row reversed
Mirror(data) ==
    [p \in 1..Len(data) |->
        data[PixelIndex(RasterShape[1] - 1 - ((p - 1) % RasterShape[1]),
                        (p - 1) \div RasterShape[1])]]

\* The effect-facing getters
getEffectGeometryClone == IF ~mesh THEN "null" ELSE "geometry"
getCoarseEffectGeometry == IF depthData = NULL THEN "null" ELSE "geometry"
\* getDisplacementUniforms() without its guard: it reads this.uniforms.mouseDelta
\* of an undefined this.uniforms.
getDisplacementUniforms_Unguarded == IF uniforms = 0 THEN "throws" ELSE "uniforms"
getDisplacementUniforms == IF uniforms = 0 THEN "null" ELSE "uniforms"
getCanonicalTransform ==
    IF cachedCanonicalTransform = NULL THEN "null" ELSE "transform"

NoFrame == [n |-> 0, locked |-> FALSE, autoApplied |-> FALSE, sources |-> {},
            targetX |-> 0, targetY |-> 0, seenByEffects |-> <<0, 0>>,
            seenByRender |-> <<0, 0>>, updated |-> <<>>, deltaTime |-> 0,
            idleFor |-> 0, afterInput |-> FALSE, validated |-> FALSE,
            gap |-> 0, meshTransform |-> InitialMeshTransform,
            lanternOrigin |-> NULL,
            threw |-> {},
            rendered |-> FALSE]

\* ------------------------------------------------------------- Init
\* The state when the constructor returns: init() has started and is
\* suspended in loadConfig() on the fetch of config.json.
Init ==
    /\ touchCapable \in BOOLEAN
    /\ orientationApi \in OrientationApis
    /\ effectFiles \in EffectFileLists
    /\ configFile \in ConfigFiles
    /\ now = 0
    /\ innerWidth \in Widths
    /\ innerHeight \in Heights
    /\ imageSize \in ImageSizes
    /\ settings = ConstructorFields
    /\ initPc = "loadConfig"
    /\ rasters = "idle"
    /\ mesh = FALSE
    /\ mouseDelta = <<0, 0>>
    /\ listenersInstalled = FALSE
    /\ rafScheduled = FALSE
    /\ effectManager = FALSE
    /\ mouseX = 0 /\ mouseY = 0 /\ targetX = 0 /\ targetY = 0
    /\ mouseOnScreen = TRUE
    /\ lastMouseMoveTime = 0
    /\ lastFrameTime = 0
    /\ isLocked = FALSE
    /\ isTouchDevice = detectTouchDevice
    /\ isMobile = detectMobileDevice(touchCapable, innerWidth)
    /\ useOrientation = detectMobileDevice(touchCapable, innerWidth)
    /\ orientationSupported = FALSE
    /\ orientationPermissionGranted = FALSE
    /\ orientationPermissionRequested = FALSE
    /\ orientationDataReceived = FALSE
    /\ orientationBaseline = NULL
    /\ orientationBaselineSamples = <<>>
    /\ orientationX = 0 /\ orientationY = 0
    /\ orientationListeners = 0
    /\ probeTimers = <<>>
    /\ permissionRequests = 0
    /\ tiltEvents = 0
    /\ cameraAspect = NULL
    /\ depthData = NULL
    /\ uniforms = 0
    /\ sceneMeshes = {}
    /\ meshTransform = InitialMeshTransform
    /\ cachedCanonicalTransform = NULL
    /\ backgroundPc = "idle"
    /\ pendingImage = NULL
    /\ lanternOrigin = NULL
    /\ overlayUniforms = 0
    /\ overlayMouseDelta = <<0, 0>>
    /\ notified = [m \in Effects |-> NULL]
    /\ apiResults = NULL
    /\ depthImage = NULL
    /\ depthRaster = NULL
    /\ expansion = NULL
    /\ lanternSystems = NULL
    /\ lanternTime = 0
    /\ lanternInitialized = FALSE
    /\ meshes = <<>>
    /\ materials = <<>>
    /\ textures = <<>>
    /\ rippleInstances = <<>>
    /\ currentInstanceIndex = 0 - 1
    /\ wakeActive = FALSE
    /\ rippleTime = 0
    /\ activeWake = NULL
    /\ particles = <<>>
    /\ pool = <<>>
    /\ emitterTime = 0
    /\ lastSprayTime = 0
    /\ meshesCreated = 0
    /\ createdAtCapacity = FALSE
    /\ effects = {}
    /\ effectInstances = <<>>
    /\ isInitialized = FALSE
    /\ loadPc = "notStarted"
    /\ loadOne = [m \in Effects |-> "notStarted"]
    /\ frame = NoFrame
    /\ frameCount = 0
    /\ updatedEver = {}
    /\ cleanupCalls = [m \in Effects |-> 0]
    /\ destroyed = FALSE
    /\ resolvedAtDestroy = {}
    /\ lastAcceptedInput = 0
    /\ inputSinceFrame = FALSE
    /\ probeValidated = FALSE
    /\ samplesSeen = {}

\* ------------------------------------------- orientation sub-machine
\* The fields that requestOrientationPermission and its callees assign,
\* gathered in a record so that the calls compose in program order.
OrientationState ==
    [enabled |-> settings.orientationEnabled,
     fallbackToTouch |-> settings.orientationFallbackToTouch,
     useOrientation |-> useOrientation,
     supported |-> orientationSupported,
     granted |-> orientationPermissionGranted,
     baseline |-> orientationBaseline,
     samples |-> orientationBaselineSamples,
     listeners |-> orientationListeners,
     timers |-> probeTimers,
     requests |-> permissionRequests,
     events |-> tiltEvents]

SetOrientationState(o) ==
    /\ useOrientation' = o.useOrientation
    /\ orientationSupported' = o.supported
    /\ orientationPermissionGranted' = o.granted
    /\ orientationBaseline' = o.baseline
    /\ orientationBaselineSamples' = o.samples
    /\ orientationListeners' = o.listeners
    /\ probeTimers' = o.timers
    /\ permissionRequests' = o.requests
    /\ tiltEvents' = o.events

\* handleOrientationFallback() that leaves the input mode as it is.
handleOrientationFallback_KeepMode(o, mobile) == o

\* handleOrientationFallback()
handleOrientationFallback(o, mobile) ==
    IF o.fallbackToTouch /\ mobile
    THEN [o EXCEPT !.useOrientation = FALSE]
    ELSE o

\* setupOrientationListeners(): clears the calibration, registers one more
\* deviceorientation listener and arms one more 2-second probe.
setupOrientationListeners(o) ==
    IF ~o.granted
    THEN o
    ELSE [o EXCEPT !.baseline = NULL,
                   !.samples = <<>>,
                   !.events = 0,
                   !.listeners = @ + 1,
                   !.timers = Append(@, now + ProbeDelay)]

\* requestOrientationPermission() up to its first suspension: with the
\* permission API it suspends on requestPermission(); without it the
\* function runs to its end.
requestOrientationPermission(o, mobile) ==
    CASE orientationApi = "permission" ->
            [o EXCEPT !.requests = @ + 1]
      [] orientationApi = "plain" ->
            setupOrientationListeners([o EXCEPT !.granted = TRUE, !.supported = TRUE])
      [] OTHER ->
            handleOrientationFallback(o, mobile)

\* updateInputModeFromViewport() that keeps the calibration when the device
\* stops being classified as mobile.
updateInputModeFromViewport_KeepBaseline(o, width) ==
    LET mobile == detectMobileDevice(detectTouchDevice, width)
        o1 == [o EXCEPT !.useOrientation = mobile /\ o.enabled]
    IN  IF mobile /\ o.enabled /\ ~needsPermission /\ ~o1.granted
        THEN requestOrientationPermission(o1, mobile)
        ELSE o1

\* updateInputModeFromViewport() for the given window width
updateInputModeFromViewport(o, width) ==
    LET mobile == detectMobileDevice(detectTouchDevice, width)
        o1 == [o EXCEPT !.useOrientation = mobile /\ o.enabled]
        o2 == IF ~mobile
              THEN [o1 EXCEPT !.baseline = NULL, !.samples = <<>>, !.events = 0]
              ELSE o1
    IN  IF mobile /\ o.enabled
            /\ ~needsPermission /\ ~o2.granted
        THEN requestOrientationPermission(o2, mobile)
        ELSE o2

\* The fields handleDeviceOrientation assigns.
SampleState ==
    [dataReceived |-> orientationDataReceived,
     baseline |-> orientationBaseline,
     samples |-> orientationBaselineSamples,
     x |-> orientationX,
     y |-> orientationY,
     lastMove |-> lastMouseMoveTime,
     onScreen |-> mouseOnScreen,
     processed |-> FALSE]

\* Number of binary digits of a natural number
RECURSIVE BitLength(_)
BitLength(a) == IF a = 0 THEN 0 ELSE 1 + BitLength(a \div 2)

\* A floating-point result: the whole number x rounded to MantissaBits
\* significant bits, to nearest, ties to even.
FloatRound(x) ==
    LET a == Abs(x)
        e == BitLength(a) - MantissaBits
    IN  IF e <= 0 THEN x
        ELSE LET unit == 2 ^ e
                 q == a \div unit
                 r == a % unit
                 up == r * 2 > unit \/ (r * 2 = unit /\ q % 2 = 1)
                 m == (IF up THEN q + 1 ELSE q) * unit
             IN  IF x < 0 THEN 0 - m ELSE m

\* reduce((acc, sample) => acc += sample, 0) over one coordinate, every
\* addition a floating-point addition
RECURSIVE Accumulate(_, _, _)
Accumulate(samples, i, acc) ==
    IF samples = <<>> THEN acc
    ELSE Accumulate(Tail(samples), i, FloatRound(acc + Head(samples)[i]))

SumField(samples, i) == Accumulate(samples, i, 0)

\* The normalisation without the dead zone below the threshold.
NormalizedTilt_NoDeadZone(adjusted) ==
    Clamp(0 - Scale, MulDiv(adjusted, 1, settings.orientationMaxAngle), Scale)

\* The part of handleDeviceOrientation after the baseline exists: the sample
\* relative to the baseline (1/Scale degrees), normalised by the maximum
\* angle, dead zone below the threshold, times the orientation sensitivity.
NormalizedTilt(adjusted) ==
    LET n == Clamp(0 - Scale, MulDiv(adjusted, 1, settings.orientationMaxAngle), Scale)
    IN  IF Abs(n) * settings.orientationMaxAngle < settings.orientationThreshold * Scale
        THEN 0 ELSE n

WrapBeta(adjusted) ==
    IF adjusted > 90 * Scale THEN 180 * Scale - adjusted
    ELSE IF adjusted < 0 - 90 * Scale THEN 0 - 180 * Scale - adjusted
    ELSE adjusted

\* handleDeviceOrientation(event) with event = {beta, gamma}
handleDeviceOrientation(h, sample) ==
    IF ~sample.data
    THEN h
    ELSE
      LET h1 == [h EXCEPT !.dataReceived = TRUE]
          collecting == h1.baseline = NULL
          pushed == IF collecting
                    THEN Append(h1.samples, <<sample.beta, sample.gamma>>)
                    ELSE h1.samples
      IN  IF collecting /\ Len(pushed) < BaselineSampleCount
          THEN [h1 EXCEPT !.samples = pushed]
          ELSE
            LET base == IF collecting
                        THEN <<MulDiv(SumField(pushed, 1), Scale, Len(pushed)),
                               MulDiv(SumField(pushed, 2), Scale, Len(pushed))>>
                        ELSE h1.baseline
                normalizedX == NormalizedTilt(sample.gamma * Scale - base[2])
                normalizedY == NormalizedTilt(0 - WrapBeta(sample.beta * Scale - base[1]))
            IN  [h1 EXCEPT !.baseline = base,
                           !.samples = IF collecting THEN <<>> ELSE pushed,
                           !.x = MulDiv(normalizedX, settings.orientationSensitivity, 100),
                           !.y = MulDiv(normalizedY, settings.orientationSensitivity, 100),
                           !.lastMove = now,
                           !.onScreen = TRUE,
                           !.processed = TRUE]

\* One deviceorientation event is delivered to every registered listener;
\* each listener returns early when locked or not using orientation.
RECURSIVE DeliverOrientation(_, _, _)
DeliverOrientation(h, sample, k) ==
    IF k = 0 THEN h
    ELSE DeliverOrientation(handleDeviceOrientation(h, sample), sample, k - 1)

\* ------------------------------------------------------- EffectManager
\* The modules loadEffects() is loading
Loading == Range(effectFiles)

\* A loadOne promise (with its .catch) has settled
SettledIn(lo, m) == lo[m] \in {"resolved", "failed", "noDefault"}

AllSettledIn(lo) == \A m \in Loading : SettledIn(lo, m)

AllSettled == AllSettledIn(loadOne)

\* The non-null entries of the results array, in the order of effectFiles
RECURSIVE LoadedResults(_, _)
LoadedResults(files, lo) ==
    IF files = <<>> THEN <<>>
    ELSE IF lo[Head(files)] = "resolved"
         THEN <<Head(files)>> \o LoadedResults(Tail(files), lo)
         ELSE LoadedResults(Tail(files), lo)

\* Promise.all over loadOne promises without their own .catch: one rejection
\* rejects the whole and nothing is registered.
RegisteredByLoad_RejectAll(lo) ==
    IF \E m \in Loading : lo[m] = "failed" THEN <<>> ELSE LoadedResults(effectFiles, lo)

\* What results.forEach registers: every loadOne promise carries its own
\* .catch, so Promise.all resolves with all results and the module whose
\* load failed contributes null.
RegisteredByLoad(lo) == LoadedResults(effectFiles, lo)

\* The continuation of `await Promise.all(...)` in loadEffects().  Promise
\* continuations are microtasks: it runs in the same turn in which the last
\* loadOne promise settles, before any frame or event.  It registers the
\* results and sets isInitialized; it does not look at whether cleanup()
\* has run in the meantime.
LoadEffectsContinue(lo) ==
    IF AllSettledIn(lo)
    THEN /\ effects' = effects \cup Range(RegisteredByLoad(lo))
         /\ effectInstances' = effectInstances \o RegisteredByLoad(lo)
         /\ isInitialized' = TRUE
         /\ loadPc' = "done"
    ELSE UNCHANGED <<effects, effectInstances, isInitialized, loadPc>>

\* What the last synchronous stretch of a module's init() leaves behind when
\* init() resolves.  LanternEffect.init() computes the world position of
\* its lanterns from parallax.meshTransform; WaterRippleEffect.init() builds
\* its overlay with createCoarseAreaEffectMesh(), whose material takes the
\* objects that getDisplacementUniforms() returns.
EffectInitEnds(m, to) ==
    /\ lanternOrigin' = IF to = "resolved" /\ m = "lanterns"
                        THEN LanternPosition(meshTransform) ELSE lanternOrigin
    /\ overlayUniforms' = IF to = "resolved" /\ m = "water-ripple"
                          THEN uniforms ELSE overlayUniforms
    /\ overlayMouseDelta' = IF to = "resolved" /\ m = "water-ripple"
                            THEN mouseDelta ELSE overlayMouseDelta
    /\ UNCHANGED <<cameraAspect, depthData, uniforms, sceneMeshes, meshTransform,
                   cachedCanonicalTransform, backgroundPc, pendingImage, notified,
                   apiResults>>

\* loadOne(m) advances from one position or outcome to another.
LoadOneStep(m, from, to) ==
    /\ loadPc = "awaitAll" /\ initPc = "running"
    /\ loadOne[m] = from
    /\ loadOne' = [loadOne EXCEPT ![m] = to]
    /\ LoadEffectsContinue([loadOne EXCEPT ![m] = to])
    /\ EffectInitEnds(m, to)
    /\ UNCHANGED <<envVars, assetVars, browserVars, engineVars, motionVars, deviceVars,
                   orientationVars, historyVars>>

\* import(effectPath) resolves with a default export; the constructor runs
\* and init() is called.
ImportResolved(m) == LoadOneStep(m, "importing", "initializing")

\* import(effectPath) resolves without a default export: loadOne returns null.
ImportWithoutDefault(m) == LoadOneStep(m, "importing", "noDefault")

\* import(effectPath) rejects or the constructor throws: .catch returns null.
ImportFailed(m) == LoadOneStep(m, "importing", "failed")

\* effectInstance.init() resolves: loadOne returns {key, instance}.
InitResolved(m) == LoadOneStep(m, "initializing", "resolved")

\* effectInstance.init() rejects: .catch returns null.
InitRejected(m) == LoadOneStep(m, "initializing", "failed")

\* EffectManager.cleanup(): cleanup() of every registered instance inside its
\* own try/catch (a throwing cleanup() has still been called), then the
\* registry is emptied.
CleanedUp(calls) ==
    [m \in Effects |->
        calls[m] + Cardinality({i \in 1..Len(effectInstances) : effectInstances[i] = m})]

\* SimpleParallax.destroy()
Destroy ==
    /\ initPc = "running"
    /\ ~destroyed
    /\ IF effectManager
       THEN /\ cleanupCalls' = CleanedUp(cleanupCalls)
            /\ effects' = {}
            /\ effectInstances' = <<>>
            /\ isInitialized' = FALSE
       ELSE UNCHANGED <<cleanupCalls, effects, effectInstances, isInitialized>>
    /\ effectManager' = FALSE
    /\ destroyed' = TRUE
    /\ resolvedAtDestroy' = {m \in Effects : loadOne[m] = "resolved"}
    /\ sceneMeshes' = IF mesh THEN sceneMeshes \ {uniforms} ELSE sceneMeshes
    /\ UNCHANGED <<cameraAspect, depthData, uniforms, meshTransform,
                   cachedCanonicalTransform, backgroundPc, pendingImage, lanternOrigin,
                   overlayUniforms, overlayMouseDelta, notified, apiResults>>
    /\ UNCHANGED <<envVars, assetVars, browserVars, settings, initPc, rasters, mesh, mouseDelta,
                   listenersInstalled, rafScheduled, motionVars, deviceVars,
                   orientationVars, loadPc, loadOne, frame, frameCount, updatedEver,
                   lastAcceptedInput, inputSinceFrame, probeValidated, samplesSeen>>

\* ------------------------------------------------------ SimpleParallax.init
\* loadConfig() has settled, whatever the fetch gave; init() goes on with
\* updateInputModeFromViewport(), creates scene and renderer and suspends in
\* loadImageAndDepthMap() on the two raster promises.
ConfigLoaded ==
    /\ initPc = "loadConfig"
    /\ initPc' = "loadImageAndDepthMap"
    /\ rasters' = "loading"
    /\ isTouchDevice' = detectTouchDevice
    /\ isMobile' = detectMobileDevice(detectTouchDevice, innerWidth)
    /\ LET fields == loadConfig(configFile, settings)
           o == [OrientationState EXCEPT
                    !.enabled = fields.orientationEnabled,
                    !.fallbackToTouch = fields.orientationFallbackToTouch]
       IN  /\ settings' = fields
           /\ SetOrientationState(updateInputModeFromViewport(o, innerWidth))
    /\ cameraAspect' = Rat(innerWidth, innerHeight)
    /\ UNCHANGED <<depthData, uniforms, sceneMeshes, meshTransform,
                   cachedCanonicalTransform, backgroundPc, pendingImage, lanternOrigin,
                   overlayUniforms, overlayMouseDelta, notified, apiResults>>
    /\ UNCHANGED <<envVars, assetVars, browserVars, mesh, mouseDelta, listenersInstalled,
                   rafScheduled, effectManager, motionVars,
                   orientationPermissionRequested, orientationDataReceived,
                   orientationX, orientationY, hostVars, historyVars>>

\* Both raster promises of loadImageAndDepthMap() resolve: the texture
\* loader calls back and the depth image fires onload, which needs
\* this.depthMapPath to name an image.
RastersLoad ==
    /\ rasters = "loading"
    /\ settings.depthMapPath
    /\ rasters' = "loaded"

\* The image or the depth map fails to load or decode.  Neither promise has
\* a reject path (no onError callback, no img.onerror): Promise.all stays
\* pending and init() stays suspended in loadImageAndDepthMap().
RasterFailed ==
    /\ initPc = "loadImageAndDepthMap"
    /\ rasters = "loading"
    /\ rasters' = "failed"
    /\ UNCHANGED <<envVars, assetVars, browserVars, settings, initPc, mesh, mouseDelta,
                   listenersInstalled, rafScheduled, effectManager, motionVars,
                   deviceVars, orientationVars, hostVars, historyVars>>
    /\ UNCHANGED sceneVars

\* img.onload of the depth map: the pixels are read back from a canvas into
\* this.depthData and dilated when expandDepthmapRadius > 0.
DepthMapLoaded(image) ==
    /\ initPc = "loadImageAndDepthMap"
    /\ rasters = "loading"
    /\ settings.depthMapPath
    /\ depthRaster = NULL
    /\ depthImage' = image
    /\ depthRaster' = IF settings.expandDepthmapRadius > 0
                      THEN expandDepthMap(image, settings.expandDepthmapRadius)
                      ELSE image
    /\ UNCHANGED <<envVars, browserVars, engineVars, motionVars, deviceVars,
                   orientationVars, sceneVars, hostVars, historyVars, expansion,
                   lanternVars, waterVars, emitterVars>>

\* expandDepthMap(this.depthData, radius) called on the loaded depth data;
\* src.set(dst) leaves the result in this.depthData.data as well.
ExpandDepthMap(radius) ==
    /\ depthRaster # NULL
    /\ expansion = NULL
    /\ \E output \in {expandDepthMap(depthRaster, radius)} :
          /\ expansion' = [radius |-> radius, input |-> depthRaster, output |-> output]
          /\ depthRaster' = output
    /\ UNCHANGED <<envVars, browserVars, engineVars, motionVars, deviceVars,
                   orientationVars, sceneVars, hostVars, historyVars, depthImage,
                   lanternVars, waterVars, emitterVars>>

\* ------------------------------------------------------ LanternEffect
\* config.count of the lantern systems that are followed
LanternCounts == <<1, 2>>
\* config.lifetime * (0.7 + Math.random() * 0.6) for a lifetime of 0.2 s (ms)
Lifetimes == {140, 260}
\* spawnInterval + randomDelay for newParticleSpeed = 10 (ms)
SpawnGaps == {75, 125}
\* deltaTime as animate() passes it (ms); 0 stands for a value that is not
\* a positive finite number
DeltaTimes == {0, 100}

\* LanternEffect.init(): one system per configured lantern, no particles
LanternInit ==
    /\ lanternSystems = NULL
    /\ lanternSystems' = [i \in 1..Len(LanternCounts) |->
                             [count |-> LanternCounts[i], particles |-> <<>>,
                              nextParticleTime |-> 0]]
    /\ lanternTime' = 0
    /\ lanternInitialized' = TRUE
    /\ UNCHANGED <<meshes, materials, textures>>
    /\ UNCHANGED <<envVars, browserVars, engineVars, motionVars, deviceVars,
                   orientationVars, sceneVars, hostVars, historyVars, depthVars,
                   waterVars, emitterVars>>

\* frameDelta of update(deltaTime)
FrameDelta(deltaTime) == IF deltaTime > 0 THEN deltaTime ELSE DefaultFrameDelta

\* Whether update() spawns a particle in the system at clock value t
Spawns(system, t) ==
    t >= system.nextParticleTime /\ Len(system.particles) < system.count

\* The particles of a system after the loop of update() over them: each
\* ages by frameDelta, and one that has reached its lifetime is spliced out
\* (its mesh leaves the scene, its geometry and material are disposed).
AgeParticles(list, frameDelta) ==
    SelectSeq([i \in 1..Len(list) |->
                  [list[i] EXCEPT !.age = @ + frameDelta]],
              LAMBDA particle : particle.age < particle.lifetime)

\* One system in update(): spawnParticle() when due, then the ageing loop
UpdateSystem(system, t, frameDelta, lifetime, gap, mesh_) ==
    LET spawned == IF Spawns(system, t)
                   THEN Append(system.particles,
                               [mesh |-> mesh_, age |-> 0, lifetime |-> lifetime])
                   ELSE system.particles
    IN  [system EXCEPT !.particles = AgeParticles(spawned, frameDelta),
                       !.nextParticleTime = IF Spawns(system, t) THEN t + gap ELSE @]

\* BaseEffect.createPlaneMesh() as spawnParticle() calls it: the new mesh,
\* its material and the flare texture are pushed on the three cleanup lists.
createPlaneMesh(tracked, created) == tracked \o created

\* LanternEffect.update(deltaTime); lifetime[i] and gap[i] are the random
\* draws of system i.
LanternUpdate(deltaTime, lifetime, gap) ==
    /\ lanternInitialized
    /\ lanternTime < MaxLanternTime
    /\ LET frameDelta == FrameDelta(deltaTime)
           t == lanternTime + frameDelta
           spawning == {i \in 1..Len(lanternSystems) : Spawns(lanternSystems[i], t)}
           id(i) == Len(meshes) + Cardinality({j \in spawning : j <= i})
           created == [k \in 1..Cardinality(spawning) |-> Len(meshes) + k]
       IN  /\ lanternTime' = t
           /\ lanternSystems' =
                 [i \in 1..Len(lanternSystems) |->
                     UpdateSystem(lanternSystems[i], t, frameDelta, lifetime[i],
                                  gap[i], id(i))]
           /\ meshes' = createPlaneMesh(meshes, created)
           /\ materials' = createPlaneMesh(materials, created)
           /\ textures' = createPlaneMesh(textures, [k \in 1..Len(created) |-> "flare"])
    /\ UNCHANGED lanternInitialized
    /\ UNCHANGED <<envVars, browserVars, engineVars, motionVars, deviceVars,
                   orientationVars, sceneVars, hostVars, historyVars, depthVars,
                   waterVars, emitterVars>>

\* LanternEffect.cleanup(): every particle and system is dropped, then
\* BaseEffect.cleanup() disposes and empties the three lists.
LanternCleanup ==
    /\ lanternInitialized
    /\ lanternSystems' = <<>>
    /\ meshes' = <<>>
    /\ materials' = <<>>
    /\ textures' = <<>>
    /\ lanternInitialized' = FALSE
    /\ UNCHANGED lanternTime
    /\ UNCHANGED <<envVars, browserVars, engineVars, motionVars, deviceVars,
                   orientationVars, sceneVars, hostVars, historyVars, depthVars,
                   waterVars, emitterVars>>

\* -------------------------------------------------- WaterRippleEffect
\* What one update() finds: whether the wake interaction is enabled, whether
\* the pointer is over water, the smoothed pointer speed ("still" is below
\* 0.01, "fast" is at least velocityThreshold) and whether the eased
\* position is at least trailSpacing away from the latest breadcrumb.
WakeInputs ==
    {[enabled |-> FALSE, overWater |-> FALSE, speed |-> "still", far |-> FALSE],
     [enabled |-> TRUE, overWater |-> FALSE, speed |-> "still", far |-> FALSE]}
    \cup {[enabled |-> TRUE, overWater |-> TRUE, speed |-> speed, far |-> far] :
              speed \in {"still", "drift", "fast"}, far \in BOOLEAN}

\* fadeOutStartTime of an instance that has not started to fade out
Undefined == 0 - 1

\* The state of the wake system that the instance functions work on
WakeState ==
    [instances |-> rippleInstances, current |-> currentInstanceIndex,
     active |-> wakeActive, made |-> activeWake]

\* The instance that currentInstanceIndex refers to, NULL if there is none
CurrentRef(w) ==
    IF w.current >= 0 /\ w.current < Len(w.instances)
    THEN w.instances[w.current + 1] ELSE NULL

\* Array.indexOf(ref), -1 when ref is null or not in the array; an instance
\* is identified by its createdAt, since one update() creates at most one.
IndexOf(instances, ref) ==
    IF ref = NULL \/ ~\E i \in 1..Len(instances) : instances[i].createdAt = ref.createdAt
    THEN 0 - 1
    ELSE (CHOOSE i \in 1..Len(instances) : instances[i].createdAt = ref.createdAt) - 1

\* createRippleInstance() without the limit on the number of instances
createRippleInstance_Unlimited(w, t) ==
    LET alive == SelectSeq(w.instances, LAMBDA inst : inst.alpha > DeadAlpha)
        pushed == Append(alive, [kind |-> "wake", alpha |-> 0, targetAlpha |-> 1,
                                 fadeOutStartTime |-> Undefined, fadeOutStartAlpha |-> 0,
                                 createdAt |-> t])
    IN  [w EXCEPT !.instances = pushed, !.current = Len(pushed) - 1, !.made = t]

\* createRippleInstance(): the dead instances are compacted away, the new
\* instance is pushed and becomes the current one; over maxInstances the
\* oldest is shifted out.
createRippleInstance(w, t) ==
    LET alive == SelectSeq(w.instances, LAMBDA inst : inst.alpha > DeadAlpha)
        pushed == Append(alive, [kind |-> "wake", alpha |-> 0, targetAlpha |-> 1,
                                 fadeOutStartTime |-> Undefined, fadeOutStartAlpha |-> 0,
                                 createdAt |-> t])
        limited == IF Len(pushed) > maxInstances THEN Tail(pushed) ELSE pushed
    IN  [w EXCEPT !.instances = limited, !.current = Len(limited) - 1, !.made = t]

\* The while loop of spawnBreadcrumb(): the first instance that is not the
\* current one is spliced out until maxInstances are left
RECURSIVE DropOldest(_, _)
DropOldest(instances, ref) ==
    IF Len(instances) <= maxInstances THEN instances
    ELSE LET others == {i \in 1..Len(instances) :
                           ref = NULL \/ instances[i].createdAt # ref.createdAt}
         IN  IF others = {} THEN instances
             ELSE LET removeIdx == CHOOSE i \in others : \A j \in others : i <= j
                  IN  DropOldest([k \in 1..(Len(instances) - 1) |->
                                     IF k < removeIdx THEN instances[k]
                                     ELSE instances[k + 1]], ref)

\* spawnBreadcrumb(): a fading snapshot is pushed and the current instance
\* is found again by reference.
spawnBreadcrumb(w, t) ==
    LET currentRef == IF w.current >= 0 THEN CurrentRef(w) ELSE NULL
        pushed == Append(w.instances,
                         [kind |-> "crumb", alpha |-> CrumbAlpha, targetAlpha |-> 0,
                          fadeOutStartTime |-> t, fadeOutStartAlpha |-> CrumbAlpha,
                          createdAt |-> t])
        kept == DropOldest(pushed, currentRef)
    IN  [w EXCEPT !.instances = kept, !.current = IndexOf(kept, currentRef)]

\* deactivateCurrentWake(): the current instance starts to fade out
deactivateCurrentWake(w, t) ==
    [w EXCEPT !.instances =
                  IF w.current >= 0 /\ w.current < Len(w.instances)
                  THEN [@ EXCEPT ![w.current + 1] =
                           [CurrentRef(w) EXCEPT !.targetAlpha = 0,
                                                 !.fadeOutStartTime = t,
                                                 !.fadeOutStartAlpha = CurrentRef(w).alpha]]
                  ELSE @,
              !.current = 0 - 1,
              !.active = FALSE]

\* The fade step of updateRippleInstances() on one instance
Fade(inst, t) ==
    IF inst.targetAlpha = 0 /\ inst.fadeOutStartTime # Undefined
    THEN LET elapsed == t - inst.fadeOutStartTime
         IN  [inst EXCEPT !.alpha = IF elapsed >= FadeOutDuration THEN 0
                                    ELSE (inst.fadeOutStartAlpha
                                            * (FadeOutDuration - elapsed))
                                         \div FadeOutDuration]
    ELSE [inst EXCEPT !.alpha = inst.targetAlpha * AlphaScale
                                - ((inst.targetAlpha * AlphaScale - inst.alpha)
                                     * FadeFactor) \div AlphaScale]

\* updateRippleInstances(): instances other than the current one are dropped
\* at maxLifetime or when fully faded; every kept instance fades one step.
updateRippleInstances(w, t) ==
    LET currentRef == CurrentRef(w)
        isActive(inst) == currentRef # NULL /\ inst.createdAt = currentRef.createdAt
        faded == [i \in 1..Len(w.instances) |-> Fade(w.instances[i], t)]
        kept == SelectSeq(faded,
                          LAMBDA inst :
                              isActive(inst)
                              \/ (t - inst.createdAt < maxLifetime /\ inst.alpha > 0))
    IN  [w EXCEPT !.instances = kept, !.current = IndexOf(kept, currentRef)]

\* The wake part of updateMouseInteraction() before updateRippleInstances()
WakeStep(w, input, t) ==
    IF ~input.overWater THEN deactivateCurrentWake(w, t)
    ELSE IF ~w.active
    THEN IF input.speed = "fast"
         THEN createRippleInstance([w EXCEPT !.active = TRUE], t)
         ELSE w
    ELSE LET current == [w EXCEPT !.instances =
                            IF CurrentRef(w) # NULL
                            THEN [@ EXCEPT ![w.current + 1].targetAlpha = 1]
                            ELSE @]
             trailed == IF CurrentRef(w) # NULL /\ input.far
                        THEN spawnBreadcrumb(current, t) ELSE current
         IN  IF input.speed = "still" THEN deactivateCurrentWake(trailed, t)
             ELSE trailed

\* updateMouseInteraction()
updateMouseInteraction(w, input, t) ==
    IF ~input.enabled
    THEN [w EXCEPT !.instances = <<>>, !.active = FALSE]
    ELSE updateRippleInstances(WakeStep(w, input, t), t)

\* WaterRippleEffect.update(deltaTime) for a deltaTime of 1 s, with
\* particleEffects.enabled false, so that there is no particleEmitter
RippleUpdate(input) ==
    /\ rippleTime < MaxRippleTime
    /\ \E w \in {updateMouseInteraction(WakeState, input, rippleTime + 1)} :
          /\ rippleInstances' = w.instances
          /\ currentInstanceIndex' = w.current
          /\ wakeActive' = w.active
          /\ activeWake' = w.made
    /\ rippleTime' = rippleTime + 1
    /\ UNCHANGED <<envVars, browserVars, engineVars, motionVars, deviceVars,
                   orientationVars, sceneVars, hostVars, historyVars, depthVars,
                   lanternVars, emitterVars>>

\* ----------------------------------------------- WaterParticleEmitter
\* Math.round(_randRange(countMin, countMax)) of the bursts that are followed
SplooshCounts == {2, 3}
SprayCounts == {1}
\* _randRange(lifetimeMin, lifetimeMax) in units of the spray interval
ParticleLifetimes == {1, 2}
\* config.spawnInterval of emitSpray(), the unit of the emitter's clock
SprayInterval == 1

\* The emitter's lists and the observations about the meshes it has made
EmitterState ==
    [particles |-> particles, pool |-> pool, created |-> meshesCreated,
     over |-> createdAtCapacity]

\* The index of the oldest live particle: the first one of maximal age
Oldest(list) ==
    CHOOSE i \in 1..Len(list) :
        /\ \A j \in 1..Len(list) : list[j].age <= list[i].age
        /\ \A j \in 1..(i - 1) : list[j].age < list[i].age

\* Swap-and-pop: the particle at index i is replaced by the last one
SwapAndPop(list, i) ==
    [k \in 1..(Len(list) - 1) |-> IF k = i THEN list[Len(list)] ELSE list[k]]

\* _acquireParticle() that makes a new mesh whenever the pool is empty
acquireParticle_NeverRecycles(e) ==
    IF e.pool # <<>>
    THEN [e |-> [e EXCEPT !.pool = SubSeq(@, 1, Len(@) - 1)],
          p |-> e.pool[Len(e.pool)]]
    ELSE [e |-> [e EXCEPT !.created = @ + 1,
                          !.over = @ \/ Len(e.particles) + Len(e.pool) >= maxParticles],
          p |-> [mesh |-> e.created + 1, age |-> 0, lifetime |-> 1]]

\* _acquireParticle(): a particle from the pool; with an empty pool and
\* maxParticles reached, the oldest live particle; otherwise a new mesh.
\* Gives the emitter after the call and the particle returned.
acquireParticle(e) ==
    IF e.pool # <<>>
    THEN [e |-> [e EXCEPT !.pool = SubSeq(@, 1, Len(@) - 1)],
          p |-> e.pool[Len(e.pool)]]
    ELSE IF Len(e.particles) + Len(e.pool) >= maxParticles /\ e.particles # <<>>
    THEN [e |-> [e EXCEPT !.particles = SwapAndPop(@, Oldest(@))],
          p |-> e.particles[Oldest(e.particles)]]
    ELSE [e |-> [e EXCEPT !.created = @ + 1,
                          !.over = @ \/ Len(e.particles) + Len(e.pool) >= maxParticles],
          p |-> [mesh |-> e.created + 1, age |-> 0, lifetime |-> 1]]

\* The loop of emitSploosh() and emitSpray(): each particle is acquired,
\* reset and pushed; lifetimes[i] is the random lifetime of the i-th one.
RECURSIVE EmitLoop(_, _, _)
EmitLoop(e, lifetimes, i) ==
    IF i > Len(lifetimes) THEN e
    ELSE LET got == acquireParticle(e)
         IN  EmitLoop([got.e EXCEPT !.particles =
                          Append(@, [got.p EXCEPT !.age = 0,
                                                  !.lifetime = lifetimes[i]])],
                      lifetimes, i + 1)

\* The loop of update(): a particle that has reached its lifetime is
\* released to the pool (_releaseParticle() resets its age) and replaced by
\* the last one, which is visited next.
RECURSIVE UpdateLoop(_, _, _)
UpdateLoop(e, deltaTime, i) ==
    IF i > Len(e.particles) THEN e
    ELSE LET p == [e.particles[i] EXCEPT !.age = @ + deltaTime]
         IN  IF p.age >= p.lifetime
             THEN UpdateLoop([e EXCEPT !.pool = Append(@, [p EXCEPT !.age = 0]),
                                       !.particles = SwapAndPop(@, i)],
                             deltaTime, i)
             ELSE UpdateLoop([e EXCEPT !.particles[i] = p], deltaTime, i + 1)

SetEmitterState(e) ==
    /\ particles' = e.particles
    /\ pool' = e.pool
    /\ meshesCreated' = e.created
    /\ createdAtCapacity' = e.over

\* emitSploosh(worldPos, config)
EmitSploosh(lifetimes) ==
    /\ SetEmitterState(EmitLoop(EmitterState, lifetimes, 1))
    /\ UNCHANGED <<emitterTime, lastSprayTime>>
    /\ UNCHANGED <<envVars, browserVars, engineVars, motionVars, deviceVars,
                   orientationVars, sceneVars, hostVars, historyVars, depthVars,
                   lanternVars, waterVars>>

\* emitSpray(worldPos, velocity, config): nothing within the spray interval
EmitSpray(lifetimes) ==
    /\ emitterTime - lastSprayTime >= SprayInterval
    /\ lastSprayTime' = emitterTime
    /\ SetEmitterState(EmitLoop(EmitterState, lifetimes, 1))
    /\ UNCHANGED emitterTime
    /\ UNCHANGED <<envVars, browserVars, engineVars, motionVars, deviceVars,
                   orientationVars, sceneVars, hostVars, historyVars, depthVars,
                   lanternVars, waterVars>>

\* WaterParticleEmitter.update(deltaTime, gravity)
EmitterUpdate(deltaTime) ==
    /\ emitterTime < MaxEmitterTime
    /\ emitterTime' = emitterTime + deltaTime
    /\ SetEmitterState(UpdateLoop(EmitterState, deltaTime, 1))
    /\ UNCHANGED lastSprayTime
    /\ UNCHANGED <<envVars, browserVars, engineVars, motionVars, deviceVars,
                   orientationVars, sceneVars, hostVars, historyVars, depthVars,
                   lanternVars, waterVars>>

\* createMesh() for a depth map of the given size: new geometry, new
\* uniform objects, a new mesh that is scaled, positioned and added to the
\* scene; the transform is tracked and the canonical transform cached.
createMesh(depth) ==
    LET geometry == GeometrySize(depth)
    IN  /\ mesh' = TRUE
        /\ uniforms' = uniforms + 1
        /\ mouseDelta' = <<0, 0>>
        /\ sceneMeshes' = sceneMeshes \cup {uniforms + 1}
        /\ depthData' = depth
        /\ meshTransform' =
              ScaleAndPositionMesh(<<innerWidth, innerHeight>>, cameraAspect, depth,
                                   geometry, settings)
        /\ cachedCanonicalTransform' =
              cacheCanonicalTransform(cachedCanonicalTransform, depth, geometry, settings)

\* createMesh(), new EffectManager(...) and the call of loadEffects(), which
\* runs to `await Promise.all` (or to its end when there are no effect files).
CreateMeshAndLoadEffects ==
    /\ createMesh(imageSize)
    /\ UNCHANGED <<cameraAspect, backgroundPc, pendingImage, lanternOrigin,
                   overlayUniforms, overlayMouseDelta, notified, apiResults>>
    /\ effectManager' = TRUE
    /\ IF effectFiles = <<>>
       THEN /\ isInitialized' = TRUE
            /\ loadPc' = "done"
            /\ UNCHANGED loadOne
       ELSE /\ loadOne' = [m \in Effects |->
                              IF m \in Loading THEN "importing" ELSE loadOne[m]]
            /\ loadPc' = "awaitAll"
            /\ UNCHANGED isInitialized

\* init() awaiting loadEffects() before it installs the listeners and starts
\* the loop.
ImagesLoaded_AwaitEffects ==
    /\ initPc = "loadImageAndDepthMap"
    /\ RastersLoad
    /\ CreateMeshAndLoadEffects
    /\ initPc' = "awaitLoadEffects"
    /\ UNCHANGED <<envVars, assetVars, browserVars, settings, listenersInstalled, rafScheduled, motionVars,
                   deviceVars, orientationVars, effects, effectInstances, historyVars>>

\* Image and depth map have loaded: createMesh(), then init() continues
\* without suspending up to its call of animate(): it creates the effect
\* manager, calls loadEffects() without awaiting it, installs the listeners
\* and sets up orientation.
ImagesLoaded ==
    /\ initPc = "loadImageAndDepthMap"
    /\ RastersLoad
    /\ CreateMeshAndLoadEffects
    /\ listenersInstalled' = TRUE
    /\ IF isMobile /\ settings.orientationEnabled /\ ~needsPermission
       THEN SetOrientationState(requestOrientationPermission(OrientationState, isMobile))
       ELSE SetOrientationState(OrientationState)
    /\ initPc' = "animate"
    /\ UNCHANGED <<envVars, assetVars, browserVars, settings, rafScheduled, motionVars, isTouchDevice,
                   isMobile, orientationPermissionRequested, orientationDataReceived,
                   orientationX, orientationY, effects, effectInstances, historyVars>>

\* ------------------------------------------------------------ animate
\* Math.cos / Math.sin of currentTime * autoMovementCircleSpeed (0.001 rad
\* per ms), in thousandths, at whole radians
CosTable == <<1000, 540, 0 - 416, 0 - 990, 0 - 654, 284, 960, 754, 0 - 146, 0 - 911>>
SinTable == <<0, 841, 909, 141, 0 - 757, 0 - 959, 0 - 279, 657, 989, 412>>
CircleIndex(time) == ((time \div 1000) % Len(CosTable)) + 1
autoX(time) == MulDiv(MulDiv(CosTable[CircleIndex(time)], Scale, 1000), AutoMovementRange, 100)
autoY(time) == MulDiv(MulDiv(SinTable[CircleIndex(time)], Scale, 1000), AutoMovementRange, 100)

\* Idle time measured from the latest frame instead of the latest input.
AutoMovementActive_SinceFrame(time) ==
    /\ settings.autoMovementEnabled
    /\ ~isLocked
    /\ time - lastFrameTime > IdleTimeout

\* updateAutoMovement() without its isLocked check.
AutoMovementActive_IgnoresLock(time) ==
    /\ settings.autoMovementEnabled
    /\ time - lastMouseMoveTime > IdleTimeout

\* updateAutoMovement(): whether the auto-circle step is applied
AutoMovementActive(time) ==
    /\ settings.autoMovementEnabled
    /\ ~isLocked
    /\ time - lastMouseMoveTime > IdleTimeout

\* target += (auto - target) * autoMovementSpeed * 0.01
AutoStep(t, auto) == t + MulDiv(auto - t, AutoMovementSpeed, 100 * 100)

\* An integrator that moves half of the configured share per frame.
Ease_HalfRate(t, goal, easing) == t + MulDiv(goal - t, easing, 2 * 100)

\* An integrator whose rate is clamped to at least 0.01.
Ease_MinimumRate(t, goal, easing) ==
    t + MulDiv(goal - t, IF easing < 1 THEN 1 ELSE easing, 100)

\* target += (goal - target) * easing
Ease(t, goal, easing) == t + MulDiv(goal - t, easing, 100)

\* min + (max - min) * 2 * focus  (percent)
mouseSensitivityFocusFactor ==
    LET min == settings.mouseSensitivityFocusFactor[1]
        max == settings.mouseSensitivityFocusFactor[2]
    IN  min + MulDiv((max - min) * 2, settings.focus, 100)

\* mouseSensitivityFocusFactor * input * baseMouseSensitivity
InputGoal(input) ==
    MulDiv(MulDiv(mouseSensitivityFocusFactor, input, 100),
           settings.baseMouseSensitivity, 100)

\* The branch of animate()'s input step that is taken
InputSource ==
    IF isLocked THEN "locked"
    ELSE IF isMobile /\ useOrientation /\ orientationSupported THEN "orientation"
    ELSE IF mouseOnScreen THEN "pointer"
    ELSE "return"

\* The input step of animate() on one axis
InputStep(t, source, pointer, tilt) ==
    CASE source = "orientation" -> Ease(t, InputGoal(tilt), settings.easing)
      [] source = "pointer" -> Ease(t, InputGoal(pointer), settings.easing)
      [] source = "return" -> Ease(t, 0, ReturnToCenterEasing)
      [] OTHER -> t

\* uniforms.mouseDelta.value.set(targetX, -targetY), when mesh and uniforms exist
WriteMouseDelta(current, tx, ty) ==
    IF mesh THEN <<tx, 0 - ty>> ELSE current

\* The readers run before the write of the frame.
UniformReadBeforeWrite(before, after) == before

\* The value of the mouseDelta uniform that the effects' update() and the
\* render call read: both run after the write of the same frame.
UniformReadAfterWrite(before, after) == after

\* deltaTime in ms without the cap.
DeltaTime_Uncapped(time) == time - lastFrameTime

\* deltaTime in ms, capped
DeltaTime(time) ==
    IF time - lastFrameTime > MaxDeltaTime THEN MaxDeltaTime ELSE time - lastFrameTime

\* The input branch of the frame reads a field that is undefined.  When it
\* is mouseSensitivityFocusFactor, reading its .min throws a TypeError;
\* otherwise the product is NaN, and such a frame is not followed.
FrameReadsUndefined ==
    /\ InputSource \in {"orientation", "pointer"}
    /\ settings.undefined \cap {"mouseSensitivityFocusFactor", "focus",
                                "baseMouseSensitivity", "easing"} # {}

\* A frame that throws in its input branch: requestAnimationFrame has been
\* called and updateAutoMovement() has run, the uniform is not written,
\* the effects are not updated and nothing is rendered.
AnimateThrows ==
    /\ initPc = "animate" \/ (initPc = "running" /\ rafScheduled)
    /\ frameCount < MaxFrames
    /\ InputSource \in {"orientation", "pointer"}
    /\ "mouseSensitivityFocusFactor" \in settings.undefined
    /\ LET auto == AutoMovementActive(now)
       IN  /\ targetX' = IF auto THEN AutoStep(targetX, autoX(now)) ELSE targetX
           /\ targetY' = IF auto THEN AutoStep(targetY, autoY(now)) ELSE targetY
    /\ frameCount' = frameCount + 1
    /\ lastFrameTime' = now
    /\ rafScheduled' = TRUE
    /\ initPc' = "running"
    /\ UNCHANGED <<envVars, assetVars, browserVars, settings, rasters, mesh, mouseDelta,
                   listenersInstalled, effectManager, mouseX, mouseY, mouseOnScreen,
                   lastMouseMoveTime, isLocked, deviceVars, orientationVars, hostVars,
                   frame, updatedEver, cleanupCalls, destroyed, resolvedAtDestroy,
                   lastAcceptedInput, inputSinceFrame, probeValidated, samplesSeen>>
    /\ UNCHANGED sceneVars

\* EffectManager.update() with the try/catch around the whole loop: the
\* first effect that throws ends the loop and the exception escapes.
EffectManagerUpdate_Unguarded(instances, throwing) ==
    LET faulty == {i \in 1..Len(instances) : instances[i] \in throwing}
        first == IF faulty = {} THEN Len(instances)
                 ELSE CHOOSE i \in faulty : \A j \in faulty : i <= j
    IN  [called |-> SubSeq(instances, 1, first), escaped |-> faulty # {}]

\* EffectManager.update(): update() of every instance is called in order,
\* each in its own try/catch, so that an exception of one is logged and
\* does not escape.  "throwing" are the effects whose update() throws.
EffectManagerUpdate(instances, throwing) ==
    [called |-> instances, escaped |-> FALSE]

\* One frame: animate() as called by init() or by requestAnimationFrame,
\* in which update() of the effects in "throwing" throws.
Frame(throwing) ==
    /\ initPc = "animate" \/ (initPc = "running" /\ rafScheduled)
    /\ frameCount < MaxFrames
    /\ ~FrameReadsUndefined
    /\ LET auto == AutoMovementActive(now)
           ax == IF auto THEN AutoStep(targetX, autoX(now)) ELSE targetX
           ay == IF auto THEN AutoStep(targetY, autoY(now)) ELSE targetY
           source == InputSource
           tx == InputStep(ax, source, mouseX, orientationX)
           ty == InputStep(ay, source, mouseY, orientationY)
           written == WriteMouseDelta(mouseDelta, tx, ty)
           seen == UniformReadAfterWrite(mouseDelta, written)
           outcome == IF effectManager
                      THEN EffectManagerUpdate(effectInstances, throwing)
                      ELSE [called |-> <<>>, escaped |-> FALSE]
           updated == outcome.called
       IN  /\ targetX' = tx
           /\ targetY' = ty
           /\ mouseDelta' = written
           /\ updatedEver' = updatedEver \cup Range(updated)
           /\ frame' = [n |-> frameCount + 1,
                        locked |-> isLocked,
                        autoApplied |-> auto,
                        sources |-> (IF auto THEN {"auto"} ELSE {})
                                    \cup (IF source = "locked" THEN {} ELSE {source}),
                        targetX |-> tx,
                        targetY |-> ty,
                        seenByEffects |-> seen,
                        seenByRender |-> UniformReadAfterWrite(mouseDelta, written),
                        updated |-> updated,
                        deltaTime |-> DeltaTime(now),
                        idleFor |-> now - lastAcceptedInput,
                        afterInput |-> inputSinceFrame,
                        validated |-> orientationPermissionGranted /\ probeValidated,
                        gap |-> now - lastFrameTime,
                        meshTransform |-> meshTransform,
                        lanternOrigin |-> lanternOrigin,
                        threw |-> throwing \cap Range(updated),
                        rendered |-> ~outcome.escaped]
           /\ overlayMouseDelta' = IF overlayUniforms = uniforms
                                   THEN written ELSE overlayMouseDelta
    /\ frameCount' = frameCount + 1
    /\ lastFrameTime' = now
    /\ rafScheduled' = TRUE
    /\ initPc' = "running"
    /\ inputSinceFrame' = FALSE
    /\ UNCHANGED <<cameraAspect, depthData, uniforms, sceneMeshes, meshTransform,
                   cachedCanonicalTransform, backgroundPc, pendingImage, lanternOrigin,
                   overlayUniforms, notified, apiResults>>
    /\ UNCHANGED <<envVars, assetVars, browserVars, settings, rasters, mesh, listenersInstalled,
                   effectManager, mouseX, mouseY, mouseOnScreen, lastMouseMoveTime, isLocked,
                   deviceVars, orientationVars, hostVars, cleanupCalls, destroyed,
                   resolvedAtDestroy, lastAcceptedInput, probeValidated, samplesSeen>>

\* A frame in which no effect throws
Animate == Frame({})

\* A frame in which update() of one registered effect throws
AnimateEffectThrows ==
    /\ effectManager
    /\ \E thrower \in Range(effectInstances) : Frame({thrower})

\* ------------------------------------------------------- input events
\* Event handlers run only between the synchronous steps of init().
Dispatching == listenersInstalled /\ initPc = "running"

\* The pointer part shared by the mousemove and touchmove handlers
AcceptPointer(p) ==
    /\ mouseOnScreen' = TRUE
    /\ lastMouseMoveTime' = now
    /\ mouseX' = 0 - p[1]
    /\ mouseY' = p[2]
    /\ lastAcceptedInput' = now
    /\ inputSinceFrame' = TRUE

\* A mousemove handler that returns early only while locked
MouseMoveSkipped_LockedOnly == isLocked

\* Whether the mousemove handler returns early
MouseMoveSkipped == isLocked \/ (isMobile /\ useOrientation /\ orientationSupported)

\* document 'mousemove'
MouseMove(p) ==
    /\ Dispatching
    /\ IF MouseMoveSkipped
       THEN UNCHANGED <<mouseOnScreen, lastMouseMoveTime, mouseX, mouseY,
                        lastAcceptedInput, inputSinceFrame>>
       ELSE AcceptPointer(p)
    /\ UNCHANGED <<envVars, assetVars, browserVars, engineVars, targetX, targetY, lastFrameTime,
                   isLocked, deviceVars, orientationVars, hostVars, frame, frameCount,
                   updatedEver, cleanupCalls, destroyed, resolvedAtDestroy,
                   probeValidated, samplesSeen>>
    /\ UNCHANGED sceneVars

\* Whether the touchmove handler returns early
TouchMoveSkipped == isLocked \/ (useOrientation /\ orientationSupported)

\* document 'touchmove'
TouchMove(p) ==
    /\ Dispatching /\ touchCapable
    /\ IF TouchMoveSkipped
       THEN UNCHANGED <<mouseOnScreen, lastMouseMoveTime, mouseX, mouseY,
                        lastAcceptedInput, inputSinceFrame>>
       ELSE AcceptPointer(p)
    /\ UNCHANGED <<envVars, assetVars, browserVars, engineVars, targetX, targetY, lastFrameTime,
                   isLocked, deviceVars, orientationVars, hostVars, frame, frameCount,
                   updatedEver, cleanupCalls, destroyed, resolvedAtDestroy,
                   probeValidated, samplesSeen>>
    /\ UNCHANGED sceneVars

\* document 'mouseleave': resetToCenter() clears the pointer position
MouseLeave ==
    /\ Dispatching
    /\ IF ~isMobile \/ ~useOrientation
       THEN /\ mouseOnScreen' = FALSE
            /\ mouseX' = 0
            /\ mouseY' = 0
       ELSE UNCHANGED <<mouseOnScreen, mouseX, mouseY>>
    /\ UNCHANGED <<envVars, assetVars, browserVars, engineVars, targetX, targetY,
                   lastMouseMoveTime, lastFrameTime, isLocked, deviceVars,
                   orientationVars, hostVars, historyVars>>
    /\ UNCHANGED sceneVars

\* document 'mouseenter'
MouseEnter ==
    /\ Dispatching
    /\ IF ~isMobile \/ ~useOrientation
       THEN /\ mouseOnScreen' = TRUE
            /\ lastMouseMoveTime' = now
            /\ lastAcceptedInput' = now
            /\ inputSinceFrame' = TRUE
       ELSE UNCHANGED <<mouseOnScreen, lastMouseMoveTime, lastAcceptedInput,
                        inputSinceFrame>>
    /\ UNCHANGED <<envVars, assetVars, browserVars, engineVars, mouseX, mouseY, targetX, targetY,
                   lastFrameTime, isLocked, deviceVars, orientationVars, hostVars,
                   frame, frameCount, updatedEver, cleanupCalls, destroyed,
                   resolvedAtDestroy, probeValidated, samplesSeen>>
    /\ UNCHANGED sceneVars

\* document 'touchend'
TouchEnd ==
    /\ Dispatching /\ touchCapable
    /\ IF isTouchDevice /\ ~useOrientation
       THEN /\ mouseOnScreen' = FALSE
            /\ mouseX' = 0
            /\ mouseY' = 0
       ELSE UNCHANGED <<mouseOnScreen, mouseX, mouseY>>
    /\ UNCHANGED <<envVars, assetVars, browserVars, engineVars, targetX, targetY,
                   lastMouseMoveTime, lastFrameTime, isLocked, deviceVars,
                   orientationVars, hostVars, historyVars>>
    /\ UNCHANGED sceneVars

\* document 'touchstart': the first user gesture asks for orientation permission
TouchStart ==
    /\ Dispatching /\ touchCapable
    /\ IF \/ ~isMobile \/ ~useOrientation \/ ~settings.orientationEnabled
          \/ orientationPermissionGranted \/ orientationPermissionRequested
       THEN /\ SetOrientationState(OrientationState)
            /\ UNCHANGED orientationPermissionRequested
       ELSE /\ orientationPermissionRequested' = TRUE
            /\ SetOrientationState(requestOrientationPermission(OrientationState, isMobile))
    /\ UNCHANGED <<envVars, assetVars, browserVars, engineVars, motionVars, isTouchDevice, isMobile,
                   orientationDataReceived, orientationX, orientationY, hostVars,
                   historyVars>>
    /\ UNCHANGED sceneVars

\* updateEffectPositions(): updatePositionsForMeshTransform(transform) on
\* every instance of the registry.  LanternEffect recomputes the world
\* position of its lanterns; WaterRippleEffect re-reads parallax.meshTransform.
updateEffectPositions(transform) ==
    IF effectManager /\ effectInstances # <<>>
    THEN /\ lanternOrigin' = IF "lanterns" \in Range(effectInstances)
                             THEN LanternPosition(transform) ELSE lanternOrigin
         /\ notified' = [m \in Effects |->
                            IF m \in Range(effectInstances) THEN transform
                            ELSE notified[m]]
    ELSE UNCHANGED <<lanternOrigin, notified>>

\* window 'resize' to the given size: updateInputModeFromViewport(), camera
\* and renderer follow the window; with a mesh, the cover fit is redone for
\* the geometry of the mesh, the effects are notified and the canonical
\* transform is cached again.
ResizeTo(width, height) ==
    /\ Dispatching
    /\ innerWidth' = width
    /\ innerHeight' = height
    /\ isTouchDevice' = detectTouchDevice
    /\ isMobile' = detectMobileDevice(detectTouchDevice, width)
    /\ SetOrientationState(updateInputModeFromViewport(OrientationState, width))
    /\ cameraAspect' = Rat(width, height)
    /\ IF mesh
       THEN \E transform \in
                 {CoverFit[<<<<width, height>>, depthData, meshTransform.baseGeometrySize,
                            FitFields(settings)>>]} :
              /\ meshTransform' = transform
              /\ updateEffectPositions(transform)
              /\ cachedCanonicalTransform' =
                    IF settings.referenceViewport = NULL
                    THEN cachedCanonicalTransform
                    ELSE CanonicalFit[<<depthData, meshTransform.baseGeometrySize,
                                        FitFields(settings)>>]
       ELSE UNCHANGED <<meshTransform, lanternOrigin, notified,
                        cachedCanonicalTransform>>
    /\ UNCHANGED <<depthData, uniforms, sceneMeshes, backgroundPc, pendingImage,
                   overlayUniforms, overlayMouseDelta, apiResults>>
    /\ UNCHANGED <<envVars, assetVars, now, engineVars, motionVars,
                   orientationPermissionRequested, orientationDataReceived,
                   orientationX, orientationY, hostVars, historyVars>>

\* window 'resize' to the given width
Resize(width) == ResizeTo(width, innerHeight)

\* The window changes size while no resize listener is registered (init()
\* registers it after the rasters have loaded): no handler runs.
ViewportChanged(width, height) ==
    /\ ~listenersInstalled
    /\ <<width, height>> # <<innerWidth, innerHeight>>
    /\ innerWidth' = width
    /\ innerHeight' = height
    /\ UNCHANGED <<envVars, assetVars, now, engineVars, motionVars, deviceVars, orientationVars,
                   sceneVars, hostVars, historyVars>>

\* ParallaxBackground.changeBackground(name) up to its first suspension, on
\* the fetch of the new config.json; the depth map of the new background
\* has the given size.
ChangeBackground(size) ==
    /\ initPc = "running"
    /\ ~destroyed
    /\ backgroundPc = "idle"
    /\ uniforms < MaxMeshes
    /\ backgroundPc' = "loadConfig"
    /\ pendingImage' = size
    /\ UNCHANGED <<cameraAspect, depthData, uniforms, sceneMeshes, meshTransform,
                   cachedCanonicalTransform, lanternOrigin, overlayUniforms,
                   overlayMouseDelta, notified, apiResults>>
    /\ UNCHANGED <<envVars, assetVars, browserVars, engineVars, motionVars, deviceVars,
                   orientationVars, hostVars, historyVars>>

\* loadConfig() of changeBackground() has settled; loadImageAndDepthMap()
\* starts.  applyConfig() runs and names the new depth map only for a file
\* that loaded; otherwise depthMapPath still names the previous depth map.
BackgroundConfigLoaded(file) ==
    /\ backgroundPc = "loadConfig"
    /\ backgroundPc' = "loadImageAndDepthMap"
    /\ settings' = loadConfig(file, settings)
    /\ pendingImage' = IF file.status = "ok" THEN pendingImage ELSE depthData
    /\ UNCHANGED <<cameraAspect, depthData, uniforms, sceneMeshes, meshTransform,
                   cachedCanonicalTransform, lanternOrigin, overlayUniforms,
                   overlayMouseDelta, notified, apiResults>>
    /\ UNCHANGED <<envVars, assetVars, browserVars, initPc, rasters, mesh, mouseDelta,
                   listenersInstalled, rafScheduled, effectManager, motionVars,
                   deviceVars, orientationVars, hostVars, historyVars>>

\* The rasters of the new background have loaded: createMesh().  The
\* previous mesh is neither removed from the scene nor disposed, and
\* updateEffectPositions() is not called.
BackgroundLoaded ==
    /\ backgroundPc = "loadImageAndDepthMap"
    /\ backgroundPc' = "idle"
    /\ pendingImage' = NULL
    /\ createMesh(pendingImage)
    /\ UNCHANGED <<cameraAspect, lanternOrigin, overlayUniforms, overlayMouseDelta,
                   notified, apiResults>>
    /\ UNCHANGED <<envVars, assetVars, browserVars, settings, initPc, rasters, listenersInstalled,
                   rafScheduled, effectManager, motionVars, deviceVars, orientationVars,
                   hostVars, historyVars>>

\* An effect (or any other caller) asks the four getters.
QueryApi ==
    /\ apiResults' = [geometryClone |-> getEffectGeometryClone,
                      coarseGeometry |-> getCoarseEffectGeometry,
                      displacementUniforms |-> getDisplacementUniforms,
                      canonicalTransform |-> getCanonicalTransform,
                      ready |-> (mesh \/ depthData # NULL)]
    /\ apiResults' # apiResults
    /\ UNCHANGED <<cameraAspect, depthData, uniforms, sceneMeshes, meshTransform,
                   cachedCanonicalTransform, backgroundPc, pendingImage, lanternOrigin,
                   overlayUniforms, overlayMouseDelta, notified>>
    /\ UNCHANGED <<envVars, assetVars, browserVars, engineVars, motionVars, deviceVars,
                   orientationVars, hostVars, historyVars>>

\* window 'deviceorientation', delivered to every registered listener
OrientationEvent(sample) ==
    /\ initPc # "animate"
    /\ orientationListeners > 0
    /\ IF isLocked \/ ~useOrientation
       THEN UNCHANGED <<orientationDataReceived, orientationBaseline,
                        orientationBaselineSamples, orientationX, orientationY,
                        lastMouseMoveTime, mouseOnScreen, lastAcceptedInput,
                        inputSinceFrame, tiltEvents, samplesSeen>>
       ELSE \E h \in {DeliverOrientation(SampleState, sample, orientationListeners)} :
                /\ orientationDataReceived' = h.dataReceived
                /\ orientationBaseline' = h.baseline
                /\ orientationBaselineSamples' = h.samples
                /\ orientationX' = h.x
                /\ orientationY' = h.y
                /\ lastMouseMoveTime' = h.lastMove
                /\ mouseOnScreen' = h.onScreen
                /\ lastAcceptedInput' = IF h.processed THEN now ELSE lastAcceptedInput
                /\ inputSinceFrame' = (h.processed \/ inputSinceFrame)
                /\ tiltEvents' = IF sample.data /\ tiltEvents < BaselineSampleCount
                                 THEN tiltEvents + 1 ELSE tiltEvents
                /\ samplesSeen' = IF sample.data THEN samplesSeen \cup {sample}
                                  ELSE samplesSeen
    /\ UNCHANGED <<envVars, assetVars, browserVars, engineVars, mouseX, mouseY, targetX, targetY,
                   lastFrameTime, isLocked, deviceVars, orientationSupported,
                   orientationPermissionGranted, orientationPermissionRequested,
                   orientationListeners, probeTimers, permissionRequests, hostVars,
                   frame, frameCount, updatedEver, cleanupCalls, destroyed,
                   resolvedAtDestroy, probeValidated>>
    /\ UNCHANGED sceneVars

\* The 2-second probe armed by setupOrientationListeners() fires.
ProbeFire ==
    /\ initPc # "animate"
    /\ probeTimers # <<>>
    /\ Head(probeTimers) <= now
    /\ LET o == [OrientationState EXCEPT !.timers = Tail(@)]
       IN  IF ~orientationDataReceived
           THEN SetOrientationState(handleOrientationFallback(o, isMobile))
           ELSE SetOrientationState([o EXCEPT !.supported = TRUE])
    /\ probeValidated' = (probeValidated \/ orientationDataReceived)
    /\ UNCHANGED <<envVars, assetVars, browserVars, engineVars, motionVars, isTouchDevice, isMobile,
                   orientationPermissionRequested, orientationDataReceived,
                   orientationX, orientationY, hostVars, frame, frameCount,
                   updatedEver, cleanupCalls, destroyed, resolvedAtDestroy,
                   lastAcceptedInput, inputSinceFrame, samplesSeen>>
    /\ UNCHANGED sceneVars

\* DeviceOrientationEvent.requestPermission() settles: the rest of
\* requestOrientationPermission() runs.
PermissionSettled(result) ==
    /\ initPc # "animate"
    /\ permissionRequests > 0
    /\ LET o == [OrientationState EXCEPT !.requests = @ - 1]
       IN  CASE result = "granted" ->
                  SetOrientationState(setupOrientationListeners([o EXCEPT !.granted = TRUE]))
             [] result = "denied" ->
                  SetOrientationState(
                      handleOrientationFallback([o EXCEPT !.granted = FALSE], isMobile))
             [] OTHER ->
                  SetOrientationState(handleOrientationFallback(o, isMobile))
    /\ UNCHANGED <<envVars, assetVars, browserVars, engineVars, motionVars, isTouchDevice, isMobile,
                   orientationPermissionRequested, orientationDataReceived,
                   orientationX, orientationY, hostVars, historyVars>>
    /\ UNCHANGED sceneVars

\* lock()
Lock ==
    /\ initPc = "running"
    /\ isLocked' = TRUE
    /\ targetX' = 0
    /\ targetY' = 0
    /\ mouseX' = 0
    /\ mouseY' = 0
    /\ UNCHANGED <<envVars, assetVars, browserVars, engineVars, mouseOnScreen, lastMouseMoveTime,
                   lastFrameTime, deviceVars, orientationVars, hostVars, historyVars>>
    /\ UNCHANGED sceneVars

\* unlock()
Unlock ==
    /\ initPc = "running"
    /\ isLocked' = FALSE
    /\ UNCHANGED <<envVars, assetVars, browserVars, engineVars, mouseX, mouseY, targetX, targetY,
                   mouseOnScreen, lastMouseMoveTime, lastFrameTime, deviceVars,
                   orientationVars, hostVars, historyVars>>
    /\ UNCHANGED sceneVars

\* The wall clock advances between two callbacks.
Tick(d) ==
    /\ initPc # "animate"
    /\ now + d <= MaxTime
    /\ now' = now + d
    /\ UNCHANGED <<envVars, assetVars, innerWidth, innerHeight, engineVars, motionVars, deviceVars,
                   orientationVars, hostVars, historyVars>>
    /\ UNCHANGED sceneVars

\* ------------------------------------------------------ specifications
\* The engine with its input devices on a background with effect modules,
\* which stay in flight.  A device without touch never classifies as mobile,
\* whatever orientation API its browser has.
\* One window height and one image, for the specifications that are not
\* about the geometry of the scene
DefaultScene == innerHeight = 768 /\ imageSize = <<1920, 1080>>

InitEngine ==
    /\ Init
    /\ DefaultScene
    /\ configFile \in {ConfigFile(p) : p \in ConfigProfiles}
    /\ effectFiles # <<>>
    /\ touchCapable \/ orientationApi = "none"

Next ==
    \/ ConfigLoaded
    \/ ImagesLoaded
    \/ Animate
    \/ \E p \in PointerPositions : MouseMove(p)
    \/ \E p \in PointerPositions : TouchMove(p)
    \/ MouseLeave
    \/ MouseEnter
    \/ TouchEnd
    \/ TouchStart
    \/ \E w \in Widths : Resize(w)
    \/ \E s \in OrientationSamples \cup {NoData} : OrientationEvent(s)
    \/ ProbeFire
    \/ \E r \in {"granted", "denied", "error"} : PermissionSettled(r)
    \/ Lock
    \/ Unlock
    \/ \E d \in TickSteps : Tick(d)

Spec == InitEngine /\ [][Next]_vars

\* The engine with its effect host: module loading, frames, pointer input
\* and teardown on a desktop device.
InitHost ==
    /\ Init
    /\ DefaultScene
    /\ ~touchCapable
    /\ orientationApi = "none"
    /\ innerWidth = 1024
    /\ configFile = ConfigFile(DefaultSettings)

NextHost ==
    \/ ConfigLoaded
    \/ ImagesLoaded
    \/ Animate
    \/ \E p \in PointerPositions : MouseMove(p)
    \/ \E m \in Effects : ImportResolved(m)
    \/ \E m \in Effects : ImportWithoutDefault(m)
    \/ \E m \in Effects : ImportFailed(m)
    \/ \E m \in Effects : InitResolved(m)
    \/ \E m \in Effects : InitRejected(m)
    \/ Destroy
    \/ \E d \in TickSteps : Tick(d)

SpecHost == InitHost /\ [][NextHost]_vars

\* The engine with its effect host when update() of an effect may throw.
NextFaulty ==
    \/ ConfigLoaded
    \/ ImagesLoaded
    \/ Animate
    \/ AnimateEffectThrows
    \/ \E p \in PointerPositions : MouseMove(p)
    \/ \E m \in Effects : ImportResolved(m)
    \/ \E m \in Effects : InitResolved(m)
    \/ \E d \in TickSteps : Tick(d)

SpecFaulty == InitHost /\ [][NextFaulty]_vars

\* init() from the fetch of config.json to the frame loop, for every outcome
\* of that fetch and of the loading of the two rasters.
InitLoad ==
    /\ Init
    /\ DefaultScene
    /\ configFile \in LoadOutcomes
    /\ orientationApi \in {"none", "plain"}

NextLoad ==
    \/ ConfigLoaded
    \/ ImagesLoaded
    \/ RasterFailed
    \/ Animate
    \/ AnimateThrows
    \/ \E p \in PointerPositions : MouseMove(p)
    \/ MouseLeave
    \/ \E d \in TickSteps : Tick(d)

SpecLoad == InitLoad /\ [][NextLoad]_vars

\* The integrator under every input: frames, pointer, touch, leave/enter
\* and orientation events of two poses, before and after the idle timeout,
\* on a desktop and on a narrow touch device.
InitMotion ==
    /\ Init
    /\ DefaultScene
    /\ configFile \in {ConfigFile(p) : p \in MotionProfiles}
    /\ effectFiles = <<>>
    /\ orientationApi = IF touchCapable THEN "plain" ELSE "none"
    /\ innerWidth = IF touchCapable THEN 500 ELSE 1024

NextMotion ==
    \/ ConfigLoaded
    \/ ImagesLoaded
    \/ Animate
    \/ \E p \in PointerPositions : MouseMove(p)
    \/ \E p \in PointerPositions : TouchMove(p)
    \/ MouseLeave
    \/ MouseEnter
    \/ TouchEnd
    \/ \E sample \in TiltSamples : OrientationEvent(sample)
    \/ ProbeFire
    \/ \E d \in {IdleTimeout + 1} : Tick(d)

SpecMotion == InitMotion /\ [][NextMotion]_vars

\* The geometry of the scene on a desktop: init() under every viewport,
\* image and focal point, window changes before and after the resize
\* listener exists, and the loading of the two effects of bg2.
Viewports == Widths \X Heights

InitScene ==
    /\ Init
    /\ ~touchCapable
    /\ orientationApi = "none"
    /\ effectFiles # <<>>
    /\ configFile \in {ConfigFile(p) : p \in SceneProfiles}

NextScene ==
    \/ ConfigLoaded
    \/ \E v \in Viewports : ViewportChanged(v[1], v[2])
    \/ ImagesLoaded
    \/ \E v \in Viewports : ResizeTo(v[1], v[2])
    \/ \E m \in Effects : ImportResolved(m)
    \/ \E m \in Effects : InitResolved(m)
    \/ Animate

SpecScene == InitScene /\ [][NextScene]_vars

\* The getters asked at any moment of init(), with and without a config
\* file and with rasters that fail.
InitApi ==
    /\ Init
    /\ ~touchCapable
    /\ orientationApi = "none"
    /\ effectFiles = <<>>
    /\ configFile \in {ConfigMissing} \cup {ConfigFile(p) : p \in SceneProfiles}

NextApi ==
    \/ ConfigLoaded
    \/ \E v \in Viewports : ViewportChanged(v[1], v[2])
    \/ ImagesLoaded
    \/ RasterFailed
    \/ Animate
    \/ \E v \in Viewports : ResizeTo(v[1], v[2])
    \/ QueryApi

SpecApi == InitApi /\ [][NextApi]_vars

\* Changes of background on a desktop with the effects of bg2 loaded or
\* loading, between frames and resizes.
InitBackground ==
    /\ Init
    /\ ~touchCapable
    /\ orientationApi = "none"
    /\ effectFiles # <<>>
    /\ innerWidth = 1024
    /\ innerHeight = 768
    /\ imageSize = <<1920, 1080>>
    /\ configFile = ConfigFile(SceneSettings(<<50, 50>>, 120, <<1024, 768>>))

NextBackground ==
    \/ ConfigLoaded
    \/ ImagesLoaded
    \/ \E width \in Widths : Resize(width)
    \/ \E m \in Effects : ImportResolved(m)
    \/ \E m \in Effects : InitResolved(m)
    \/ Animate
    \/ MouseMove(<<Scale, 0>>)
    \/ \E size \in ImageSizes : ChangeBackground(size)
    \/ \E file \in BackgroundFiles : BackgroundConfigLoaded(file)
    \/ BackgroundLoaded

SpecBackground == InitBackground /\ [][NextBackground]_vars

\* The depth map of a desktop engine: the decoded pixels over the exercised
\* rasters, the configured radius over 0..MaxRadius, and one further
\* expandDepthMap() call.
InitDepth ==
    /\ Init
    /\ ~touchCapable
    /\ orientationApi = "none"
    /\ effectFiles = <<>>
    /\ innerWidth = 1024
    /\ innerHeight = 768
    /\ imageSize = <<1920, 1080>>
    /\ configFile \in {ConfigFile(p) : p \in DepthProfiles}

NextDepth ==
    \/ ConfigLoaded
    \/ \E image \in Rasters : DepthMapLoaded(image)
    \/ \E radius \in 0..MaxRadius : ExpandDepthMap(radius)

SpecDepth == InitDepth /\ [][NextDepth]_vars

\* The lantern effect on its own: init(), update() calls and cleanup().
NextLanterns ==
    \/ LanternInit
    \/ \E deltaTime \in DeltaTimes :
          \E lifetime \in [1..Len(LanternCounts) -> Lifetimes] :
             \E gap \in [1..Len(LanternCounts) -> SpawnGaps] :
                LanternUpdate(deltaTime, lifetime, gap)
    \/ LanternCleanup

SpecLanterns == InitHost /\ [][NextLanterns]_vars

\* The wake instances of the water effect over a sequence of update() calls.
NextRipple == \E input \in WakeInputs : RippleUpdate(input)

SpecRipple == InitHost /\ [][NextRipple]_vars

\* The particle emitter under any sequence of its three operations.
Bursts(counts) ==
    UNION {[1..count -> ParticleLifetimes] : count \in counts}

NextEmitter ==
    \/ \E lifetimes \in Bursts(SplooshCounts) : EmitSploosh(lifetimes)
    \/ \E lifetimes \in Bursts(SprayCounts) : EmitSpray(lifetimes)
    \/ EmitterUpdate(1)

SpecEmitter == InitHost /\ [][NextEmitter]_vars

\* init()'s own call of animate(): the first frame, after which events are
\* dispatched.
StartLoop == frameCount = 0 /\ Animate

\* Orientation input on a narrow touch device, with and without the
\* permission API, under two settings of the orientation parameters and
\* samples of two device poses.  Frames do not touch the calibration: only
\* the first one is followed.
InitTilt ==
    /\ Init
    /\ DefaultScene
    /\ touchCapable
    /\ orientationApi \in {"plain", "permission"}
    /\ effectFiles = <<>>
    /\ innerWidth = 500
    /\ configFile \in {ConfigFile(p) : p \in TiltProfiles}

NextTilt ==
    \/ ConfigLoaded
    \/ ImagesLoaded
    \/ StartLoop
    \/ TouchStart
    \/ \E r \in {"granted", "denied"} : PermissionSettled(r)
    \/ \E sample \in TiltSamples \cup {NoData} : OrientationEvent(sample)
    \/ ProbeFire
    \/ \E w \in Widths : Resize(w)
    \/ \E d \in {ProbeDelay} : Tick(d)

SpecTilt == InitTilt /\ [][NextTilt]_vars

\* ------------------------------------------------------------- claims
InRegistry(m) == m \in effects /\ m \in Range(effectInstances)

LoadFailed(m) == loadOne[m] \in {"failed", "noDefault"}

\* C1: when the import, the constructor or init() of an effect module fails,
\* loadEffects() still resolves once every module has settled, the failed
\* module is never in effects / effectInstances and never receives update(),
\* and every sibling whose init() resolved is registered.
C1_EffectIsolation ==
    /\ \A m \in Effects :
          LoadFailed(m) => ~InRegistry(m) /\ m \notin effects
                           /\ m \notin Range(effectInstances) /\ m \notin updatedEver
    /\ (Loading # {} /\ AllSettled) => loadPc = "done"
    /\ (loadPc = "done" /\ ~destroyed) =>
          \A m \in Loading : loadOne[m] = "resolved" => InRegistry(m)

C1_Witness ==
    /\ loadPc = "done" /\ ~destroyed
    /\ \E m, k \in Loading :
          /\ loadOne[m] = "failed"
          /\ loadOne[k] = "resolved" /\ InRegistry(k) /\ k \in updatedEver

\* C2 (as claimed): an effect is in the registry as soon as its own init()
\* has resolved, also while a sibling's init() is pending.
C2_AttachOnOwnInit ==
    \A m \in Effects :
        (loadOne[m] = "resolved" /\ effectManager) => InRegistry(m)

\* C3: once image and depth map are loaded, init() has installed the
\* listeners and started the frame loop whatever the effect modules do; the
\* frame callback stays enabled while loadEffects() is pending.
LoopStarted == initPc = "animate" \/ rafScheduled

C3_InteractiveBeforeEffects ==
    /\ mesh => listenersInstalled /\ LoopStarted
    /\ (mesh /\ frameCount < MaxFrames) => ENABLED Animate

C3_Witness ==
    /\ frame.n >= 2
    /\ loadPc = "awaitAll"
    /\ \E m \in Loading : loadOne[m] = "initializing"
    /\ mouseX # 0 /\ frame.targetX # 0

\* C4 (as claimed): after destroy() / cleanup() the registry stays empty and
\* isReady() stays false.
C4_TornDownStaysEmpty ==
    destroyed => effects = {} /\ effectInstances = <<>> /\ ~isInitialized

\* C5 (as claimed): after destroy(), cleanup() has been called exactly once
\* on every module whose init() had resolved.
C5_CleanupEveryResolved ==
    destroyed => \A m \in resolvedAtDestroy : cleanupCalls[m] = 1

\* C6: in every frame the mouseDelta uniform is written from the current
\* target before the effects' update() and the render call read it, and it
\* is not written again in between.
C6_WriteBeforeReaders ==
    frame.n > 0 =>
        /\ frame.seenByEffects = <<frame.targetX, 0 - frame.targetY>>
        /\ frame.seenByRender = <<frame.targetX, 0 - frame.targetY>>

C6_Witness ==
    /\ frame.n > 0
    /\ frame.updated # <<>>
    /\ frame.targetX # 0

\* C7 (as claimed): in an unlocked frame exactly one source modifies the
\* target.
C7_OneSourcePerFrame ==
    (frame.n > 0 /\ ~frame.locked) => Cardinality(frame.sources) = 1

\* C8 (as claimed): the auto-circle step is applied iff auto-movement is
\* enabled, the engine is unlocked and the latest accepted input event is
\* more than idleTimeout ago; the first frame after an accepted input event
\* applies no auto-circle step.
AutoAppliedIffIdle ==
    frame.n > 0 =>
        (frame.autoApplied <=>
            (settings.autoMovementEnabled /\ ~frame.locked /\ frame.idleFor > IdleTimeout))

C8_FirstFrameAfterInput ==
    /\ AutoAppliedIffIdle
    /\ (frame.n > 0 /\ frame.afterInput) => ~frame.autoApplied

\* C8 (amended): the auto-circle step is applied iff auto-movement is
\* enabled, the engine is unlocked and the latest accepted input event (or
\* construction, before any) is more than idleTimeout ago; a frame that runs
\* within idleTimeout of an accepted input event applies no auto-circle step.
C8_AutoCircleIffIdle ==
    /\ AutoAppliedIffIdle
    /\ (frame.n > 0 /\ frame.afterInput /\ frame.idleFor <= IdleTimeout)
          => ~frame.autoApplied

C8_Witness ==
    /\ frame.n >= 2
    /\ frame.afterInput
    /\ frame.idleFor <= IdleTimeout
    /\ ~frame.autoApplied
    /\ settings.autoMovementEnabled /\ ~frame.locked

\* C9: while locked, targetX = targetY = 0 after every frame and event, and
\* a frame that runs locked writes (0, 0) to mouseDelta.
C9_LockedHoldsCenter ==
    /\ isLocked => targetX = 0 /\ targetY = 0
    /\ (frame.n > 0 /\ frame.locked) =>
          /\ frame.targetX = 0 /\ frame.targetY = 0
          /\ frame.seenByRender = <<0, 0>>

C9_Witness ==
    /\ isLocked /\ frame.locked
    /\ frame.n >= 2
    /\ settings.autoMovementEnabled
    /\ frame.idleFor > IdleTimeout
    /\ mouseDelta = <<0, 0>>

\* C10 (as claimed): a frame takes orientation as its source only after
\* permission was granted and a probe has observed orientation data.
C10_OrientationOnlyValidated ==
    (frame.n > 0 /\ "orientation" \in frame.sources) => frame.validated

\* C11: when the 2-second probe fires and no orientation event with data has
\* been handled, a mobile-classified engine with orientationFallbackToTouch
\* leaves orientation mode (useOrientation becomes false); and while a mobile
\* engine is out of orientation mode and unlocked, touchmove is accepted and
\* the frame takes the pointer position (or the return to centre) as its
\* source, never the orientation.
ProbeWithoutData ==
    /\ ProbeFire
    /\ ~orientationDataReceived
    /\ isMobile /\ settings.orientationFallbackToTouch

TouchDrives ==
    (isMobile /\ ~useOrientation /\ ~isLocked) =>
        /\ ~TouchMoveSkipped
        /\ InputSource \in {"pointer", "return"}

C11_ProbeFallsBackToTouch ==
    /\ [][ProbeWithoutData => ~useOrientation']_vars
    /\ []TouchDrives

C11_Witness ==
    /\ isMobile /\ settings.orientationEnabled /\ settings.orientationFallbackToTouch
    /\ orientationPermissionGranted /\ probeTimers = <<>>
    /\ ~orientationDataReceived /\ ~useOrientation
    /\ mouseX # 0
    /\ frame.n > 0 /\ frame.afterInput /\ frame.sources = {"pointer"}
    /\ frame.targetX # 0

\* C12 (as claimed): every orientation event with data that is handled
\* contributes exactly one sample to the calibration, so that a baseline
\* exists and orientationX/Y are written only from the 8th such event after
\* the calibration started.
C12_CalibratesOnEighthEvent ==
    /\ orientationBaseline = NULL => Len(orientationBaselineSamples) = tiltEvents
    /\ orientationBaseline # NULL => tiltEvents >= BaselineSampleCount

\* C13 (as claimed): when every handled orientation sample carries the same
\* beta and gamma, orientationX and orientationY are 0, whatever threshold,
\* max angle and sensitivity are configured.
EqualSamples == Cardinality(samplesSeen) <= 1

BaselineIsSample ==
    /\ orientationBaseline # NULL
    /\ \A sample \in samplesSeen :
          orientationBaseline = <<sample.beta * Scale, sample.gamma * Scale>>

LeavesOrientation == useOrientation /\ ~useOrientation'

WritesTilt == orientationX' # orientationX \/ orientationY' # orientationY

Calibrates == orientationBaseline = NULL /\ orientationBaseline' # NULL

C14_LeavingClearsBaseline ==
    /\ [][LeavesOrientation =>
             orientationBaseline' = NULL /\ orientationBaselineSamples' = <<>>]_vars
    /\ [][WritesTilt => orientationBaseline' # NULL]_vars
    /\ [][Calibrates =>
             Len(orientationBaselineSamples) + orientationListeners
                >= BaselineSampleCount]_vars

C14_Witness ==
    /\ orientationApi = "permission"
    /\ isMobile /\ useOrientation
    /\ orientationX # 0
    /\ orientationBaseline = NULL
    /\ tiltEvents > 0 /\ tiltEvents < BaselineSampleCount

\* C15 (as claimed): when config.json is absent or its fetch or parse fails,
\* every setting has its built-in default once loadConfig() has settled, and
\* init() can go on to build the mesh and start the frame loop.
ConfigSettled == initPc # "loadConfig"

C15_DefaultsWithoutConfig ==
    (ConfigSettled /\ configFile.status # "ok") =>
        /\ settings = applyConfig(DefaultSettings)
        /\ rasters = "loading" => ENABLED ImagesLoaded

\* C16 (as claimed): when config.json supplies a settings object, every
\* recognised key it omits has its documented default, every recognised key
\* it supplies has the supplied value, and no field is left undefined.
C16_OmittedKeysTakeDefaults ==
    (ConfigSettled /\ configFile.status = "ok" /\ configFile.hasSettings) =>
        /\ settings.undefined = {}
        /\ \A key \in DOMAIN DefaultSettings :
              settings[key] = IF Has(configFile.settings, key)
                              THEN configFile.settings[key]
                              ELSE DefaultSettings[key]

\* C17 (as claimed): when the image or the depth map fails to load, init()
\* has terminated with an error, no mesh exists and the frame loop has not
\* been started.
C17_RasterFailureEndsInit ==
    rasters = "failed" =>
        /\ initPc = "rejected"
        /\ ~mesh
        /\ ~LoopStarted

\* C18: with easing = 1, an unlocked frame whose input branch is the pointer
\* or the orientation branch leaves the smoothed motion equal to
\* sensitivity factor x raw input x base sensitivity on both axes, whatever
\* the smoothed motion was before and whether or not the auto-circle step
\* ran in the same frame.
FullEasingFrame == Animate /\ settings.easing = 100 /\ ~isLocked

C19_ZeroEasingHoldsMotion ==
    (ConfigSettled /\ settings.easing = 0) => targetX = 0 /\ targetY = 0

\* C19 (amended): with easing = 0 and the auto-circle disabled the smoothed
\* motion stays at (0, 0) in every reachable state.
C19_ZeroEasingHoldsMotionWithoutAuto ==
    (ConfigSettled /\ settings.easing = 0 /\ ~settings.autoMovementEnabled) =>
        targetX = 0 /\ targetY = 0

\* easing 0 without the auto-circle: frames have run, the last one in the
\* pointer branch with a non-zero pointer after the idle timeout had passed
C19_Witness ==
    /\ settings.easing = 0
    /\ ~settings.autoMovementEnabled
    /\ frame.n = MaxFrames
    /\ frame.sources = {"pointer"}
    /\ frame.idleFor > IdleTimeout
    /\ InputGoal(mouseX) # 0
    /\ targetX = 0
    /\ targetY = 0

\* C20 (as claimed): the sensitivity factor that scales the raw input is
\* min + (max - min) * focus and lies between min and max.
C20_FactorInterpolatesLinearly ==
    ConfigSettled =>
        LET min == settings.mouseSensitivityFocusFactor[1]
            max == settings.mouseSensitivityFocusFactor[2]
        IN  /\ mouseSensitivityFocusFactor = min + MulDiv(max - min, settings.focus, 100)
            /\ min <= mouseSensitivityFocusFactor
            /\ mouseSensitivityFocusFactor <= max

\* C21: in every frame that updates effects, the deltaTime handed to
\* EffectManager.update() is at most 0.1 s (and not negative), however long
\* the gap since the previous frame was.
C21_DeltaTimeCapped ==
    frame.updated # <<>> => frame.deltaTime >= 0 /\ frame.deltaTime <= MaxDeltaTime

\* a frame that came more than 0.1 s after the previous one and updated
\* both effects with the capped deltaTime
C21_Witness ==
    /\ frame.n > 1
    /\ frame.gap > MaxDeltaTime
    /\ Range(frame.updated) = Effects
    /\ frame.deltaTime = MaxDeltaTime

\* C22: every step that changes the live meshTransform (a resize, a mesh
\* built for a new background) hands the new transform to
\* updatePositionsForMeshTransform() of every effect in the registry.
C22_EffectsNotifiedOfEveryTransform ==
    [][meshTransform' # meshTransform =>
          \A m \in Range(effectInstances') : notified'[m] = meshTransform']_vars

\* C23: in every frame that updates the LanternEffect, the origin of each
\* lantern is (uv - 0.5) * (baseGeometrySize * scale) + position for the
\* meshTransform that is live in that frame, also when a resize came between
\* the effect's init() and the end of loadEffects().
C23_LanternsFollowLiveTransform ==
    "lanterns" \in Range(frame.updated) =>
        frame.lanternOrigin = LanternPosition(frame.meshTransform)

\* C24: the displacement uniform objects an area-effect overlay holds are
\* the objects the material of the current base mesh reads, so the overlay
\* sees the mouseDelta the engine writes, also after a change of background.
C24_OverlaySharesUniforms ==
    overlayUniforms # 0 =>
        /\ overlayUniforms = uniforms
        /\ overlayMouseDelta = mouseDelta

\* C25: the scene holds at most one displacement mesh at any time.
C25_OneMeshInScene == Cardinality(sceneMeshes) <= 1

\* C26: asked before depth data and mesh exist, getEffectGeometryClone(),
\* getCoarseEffectGeometry(), getDisplacementUniforms() and
\* getCanonicalTransform() each return null; none of them throws.
C26_GettersNullBeforeMesh ==
    (apiResults # NULL /\ ~apiResults.ready) =>
        /\ apiResults.geometryClone = "null"
        /\ apiResults.coarseGeometry = "null"
        /\ apiResults.displacementUniforms = "null"
        /\ apiResults.canonicalTransform = "null"
C26_Witness ==
    /\ apiResults # NULL
    /\ ~apiResults.ready
    /\ initPc = "loadImageAndDepthMap"
    /\ settings.referenceViewport # NULL
    /\ apiResults.displacementUniforms = "null"

C28_CanonicalStable ==
    [][(cachedCanonicalTransform' # NULL =>
            cachedCanonicalTransform' =
                ScaleAndPositionMesh(
                    settings'.referenceViewport,
                    Rat(settings'.referenceViewport[1], settings'.referenceViewport[2]),
                    depthData', GeometrySize(depthData'), settings'))
       /\ (cachedCanonicalTransform # NULL =>
               cachedCanonicalTransform' = cachedCanonicalTransform)]_vars
C28_Witness ==
    /\ cachedCanonicalTransform # NULL
    /\ notified["water-ripple"] = meshTransform
    /\ <<innerWidth, innerHeight>> # settings.referenceViewport
    /\ meshTransform.scale # cachedCanonicalTransform.scale
    /\ frame.n > 1

\* The rectangle the camera sees at the mesh plane and the rectangle the
\* scaled, positioned mesh covers there, as <<left, right, bottom, top>>.
VisibleRect ==
    LET halfWidth == RatMul(Half, RatMul(visibleHeight, cameraAspect))
        halfHeight == RatMul(Half, visibleHeight)
    IN  <<RatSub(Zero, halfWidth), halfWidth, RatSub(Zero, halfHeight), halfHeight>>
MeshRect ==
    LET halfWidth ==
            RatMul(Half, RatMul(meshTransform.baseGeometrySize[1], meshTransform.scale))
        halfHeight ==
            RatMul(Half, RatMul(meshTransform.baseGeometrySize[2], meshTransform.scale))
    IN  <<RatSub(meshTransform.position[1], halfWidth),
          RatAdd(meshTransform.position[1], halfWidth),
          RatSub(meshTransform.position[2], halfHeight),
          RatAdd(meshTransform.position[2], halfHeight)>>
\* the mesh covers what the camera sees: overflow >= 0 on both axes, the
\* offset is at most half the overflow, and a focal point coordinate of 0
\* (of 1) puts the left/bottom (right/top) edge of the mesh on the edge of
\* the visible rectangle
Covers ==
    LET overflow ==
            Overflow(meshTransform.scale, RatMul(visibleHeight, cameraAspect),
                     meshTransform.baseGeometrySize)
    IN  /\ RatLeq(Zero, overflow[1])
        /\ RatLeq(Zero, overflow[2])
        /\ RatLeq(RatAbs(meshTransform.position[1]), RatMul(Half, overflow[1]))
        /\ RatLeq(RatAbs(meshTransform.position[2]), RatMul(Half, overflow[2]))
        /\ RatLeq(MeshRect[1], VisibleRect[1])
        /\ RatLeq(VisibleRect[2], MeshRect[2])
        /\ RatLeq(MeshRect[3], VisibleRect[3])
        /\ RatLeq(VisibleRect[4], MeshRect[4])
        /\ settings.focalPoint[1] = 0 => MeshRect[1] = VisibleRect[1]
        /\ settings.focalPoint[1] = 100 => MeshRect[2] = VisibleRect[2]
        /\ settings.focalPoint[2] = 0 => MeshRect[3] = VisibleRect[3]
        /\ settings.focalPoint[2] = 100 => MeshRect[4] = VisibleRect[4]

C30_CentredFocalPointGivesNoOffset ==
    (mesh /\ settings.focalPoint = <<50, 50>>) =>
        meshTransform.position = <<Zero, Zero>>
C30_Witness ==
    /\ mesh
    /\ settings.focalPoint = <<50, 50>>
    /\ settings.extraScale = 120
    /\ notified["lanterns"] = meshTransform
    /\ cameraAspect # Rat(imageSize[1], imageSize[2])
    /\ RatLess(Zero, Overflow(meshTransform.scale, RatMul(visibleHeight, cameraAspect),
                              meshTransform.baseGeometrySize)[1])
    /\ meshTransform.position = <<Zero, Zero>>

\* C31: no expandDepthMap() pass lowers a depth: the loaded depth data is at
\* least the decoded pixel everywhere, a further call only raises it, and a
\* call with radius 0 returns its input.
C31_DilationNeverLowers ==
    /\ depthRaster # NULL =>
           \A p \in 1..Len(depthImage) : depthRaster[p] >= depthImage[p]
    /\ expansion # NULL =>
           /\ \A p \in 1..Len(expansion.input) :
                  expansion.output[p] >= expansion.input[p]
           /\ expansion.radius = 0 => expansion.output = expansion.input
C31_Witness ==
    /\ expansion # NULL
    /\ expansion.radius = MaxRadius
    /\ settings.expandDepthmapRadius = 1
    /\ \E p \in 1..Len(depthImage) : expansion.input[p] > depthImage[p]
    /\ \E p \in 1..Len(depthImage) : expansion.output[p] > expansion.input[p]

\* C32: a dilation pass does not depend on the order in which the pixels
\* are visited: mirroring the raster, dilating and mirroring back gives the
\* raster that dilating directly gives.
C32_DilationHasNoDirection ==
    depthRaster # NULL /\ expansion = NULL =>
        depthRaster =
            Mirror(expandDepthMap(Mirror(depthImage), settings.expandDepthmapRadius))

\* C33: once destroy() has returned, no frame callback runs its body any
\* more: no frame is counted or rendered, the displacement parameters and
\* the motion state keep their values.
C33_NoFrameAfterDestroy ==
    [][destroyed =>
          /\ frameCount' = frameCount
          /\ mouseDelta' = mouseDelta
          /\ <<targetX', targetY'>> = <<targetX, targetY>>
          /\ lastFrameTime' = lastFrameTime]_vars

\* C34 (as claimed): once the engine has fallen back from orientation to
\* touch on a mobile device (orientation is configured, useOrientation is
\* false), a resize that leaves the device mobile and arrives before any
\* orientation data does not make the frame's input branch or the touch
\* handlers treat orientation as the input source again.
FellBackToTouch ==
    /\ isMobile /\ settings.orientationEnabled
    /\ ~useOrientation /\ ~orientationDataReceived

C34_ResizeKeepsTouchAfterFallback ==
    [][(FellBackToTouch /\ isMobile' /\ ~orientationDataReceived')
          => ~(useOrientation' /\ orientationSupported')]_vars

\* C35 (as claimed): over init() and any sequence of resize events an engine
\* has at most one deviceorientation listener registered and at most one
\* 2-second probe timer pending.
C35_OneListenerOneProbe ==
    /\ orientationListeners <= 1
    /\ Len(probeTimers) <= 1

\* C36: while orientation mode is active (isMobile, useOrientation and
\* orientationSupported all true), a mousemove or touchmove event leaves
\* mouseX, mouseY, mouseOnScreen and lastMouseMoveTime unchanged, and an
\* unlocked frame takes the orientation branch: its target is the step from
\* the target left by updateAutoMovement() towards orientationX/orientationY,
\* whatever the pointer position is.
OrientationModeActive == isMobile /\ useOrientation /\ orientationSupported

PointerMoved ==
    \E p \in PointerPositions : MouseMove(p) \/ TouchMove(p)

FrameFollowsTilt ==
    LET auto == AutoMovementActive(now)
        ax == IF auto THEN AutoStep(targetX, autoX(now)) ELSE targetX
        ay == IF auto THEN AutoStep(targetY, autoY(now)) ELSE targetY
    IN  /\ "orientation" \in frame'.sources
        /\ "pointer" \notin frame'.sources
        /\ "return" \notin frame'.sources
        /\ targetX' = InputStep(ax, "orientation", 0, orientationX)
        /\ targetY' = InputStep(ay, "orientation", 0, orientationY)

C36_PointerIgnoredInOrientationMode ==
    [][OrientationModeActive =>
          /\ UNCHANGED <<mouseX, mouseY, mouseOnScreen, lastMouseMoveTime>>
             \/ ~PointerMoved
          /\ (frame'.n # frame.n /\ ~isLocked) => FrameFollowsTilt]_vars

C36_Witness ==
    /\ OrientationModeActive /\ ~isLocked
    /\ orientationDataReceived
    /\ mouseOnScreen /\ mouseX # 0
    /\ frame.n > 0 /\ frame.sources = {"orientation"}
    /\ targetX = frame.targetX

\* C37: when update() of one effect throws in a frame, update() of every
\* registered effect is still called in that frame, the frame is rendered,
\* and the registry of effects is left as it was, the throwing effect
\* included.
EffectThrewInFrame == frame'.n # frame.n /\ frame'.threw # {}

C37_ThrowingEffectIsIsolated ==
    [][EffectThrewInFrame =>
          /\ frame'.updated = effectInstances
          /\ frame'.rendered
          /\ effectInstances' = effectInstances
          /\ effects' = effects
          /\ frame'.threw \subseteq Range(effectInstances')]_vars

C37_Witness ==
    /\ frame.n > 0 /\ frame.rendered
    /\ Len(frame.updated) >= 2
    /\ frame.threw = {frame.updated[1]}
    /\ frame.updated = effectInstances

\* C38 (as claimed): after any number of update() calls the meshes,
\* materials and textures that the lantern effect tracks for cleanup are no
\* more than the particles that are alive, hence no more than the sum of the
\* systems' configured counts, and every tracked mesh is that of a live
\* particle.
LiveMeshes ==
    UNION {{lanternSystems[i].particles[k].mesh :
               k \in 1..Len(lanternSystems[i].particles)} :
           i \in 1..Len(lanternSystems)}

RECURSIVE Sum(_)
Sum(counts) == IF counts = <<>> THEN 0 ELSE Head(counts) + Sum(Tail(counts))

C38_TrackedBoundedByLive ==
    lanternInitialized =>
        /\ Len(meshes) <= Cardinality(LiveMeshes)
        /\ Len(materials) <= Cardinality(LiveMeshes)
        /\ Len(textures) <= Cardinality(LiveMeshes)
        /\ Len(meshes) <= Sum(LanternCounts)
        /\ Range(meshes) \subseteq LiveMeshes

\* C39: at the end of every update() there are at most maxInstances ripple
\* instances, and while a wake is active currentInstanceIndex is a valid
\* index whose instance is the one that createRippleInstance() made for this
\* wake.
C39_InstancesBoundedAndCurrentValid ==
    /\ Len(rippleInstances) <= maxInstances
    /\ wakeActive =>
          /\ currentInstanceIndex >= 0
          /\ currentInstanceIndex < Len(rippleInstances)
          /\ rippleInstances[currentInstanceIndex + 1].kind = "wake"
          /\ rippleInstances[currentInstanceIndex + 1].createdAt = activeWake

C39_Witness ==
    /\ wakeActive
    /\ Len(rippleInstances) = maxInstances
    /\ currentInstanceIndex = 0
    /\ rippleTime - activeWake >= maxInstances

\* C40: after any sequence of emitSploosh, emitSpray and update the live
\* particles and the pool together hold at most maxParticles particles, no
\* mesh is in both lists or twice in one, and no mesh was made while the two
\* lists together held maxParticles or more.
HeldMeshes ==
    [i \in 1..(Len(particles) + Len(pool)) |->
        IF i <= Len(particles) THEN particles[i].mesh
        ELSE pool[i - Len(particles)].mesh]

C40_PoolBounded ==
    /\ Len(particles) + Len(pool) <= maxParticles
    /\ \A i, j \in 1..Len(HeldMeshes) : HeldMeshes[i] = HeldMeshes[j] => i = j
    /\ ~createdAtCapacity
    /\ meshesCreated <= maxParticles

C40_Witness ==
    /\ emitterTime = 0 /\ pool = <<>>
    /\ meshesCreated = maxParticles
    /\ Len(particles) = maxParticles
    /\ \E i, j \in 1..Len(particles) :
          i < j /\ particles[i].mesh > particles[j].mesh

====
